---- MODULE Spec2Model ----
(***************************************************************************)
(* Model of backend/api.py: the precipitation tile server.                 *)
(*                                                                         *)
(* State: the connection map (_dataset_cache), the land-mask map           *)
(* (_land_mask_cache), the lru_cache wrapped around get_cached_precip_data *)
(* (entries in recency order, hit and miss counters), the Grid Source      *)
(* (datasets per period and every handle opened on it), and the request    *)
(* threads of the threaded Flask server, each with its position in the     *)
(* handler it runs.                                                        *)
(*                                                                         *)
(* Numbers. Raw readings are integers.  FillBound stands for the 1e30 of   *)
(* the validity test, so a reading of FillPos models the positive fill     *)
(* value 9.96921E36 and FillNeg the negative one -9.0E33.  86400 is        *)
(* divisible by 1, 2, 3 and 4, so the average of the valid samples of a    *)
(* day (at most TIME_STEPS_PER_DAY = 4 of them) is an exact integer.       *)
(***************************************************************************)
EXTENDS Integers, Sequences, FiniteSets, TLC

\* ------------------------------------------------------------------ constants

TIME_STEPS_PER_DAY == 4

REFERENCE_PERIOD == "202508"

SECONDS_PER_DAY == 86400

SENTINEL == -999

FillBound == 1000

FillPos == 9969

FillNeg == -9000

\* lru_cache(maxsize=500), scaled to a size the key space of the model exceeds
maxsize == 2

\* the requests one sequential run may start
MaxRequests == 3

\* the requests one concurrent run may start
MaxConcurrent == 2

\* the handles the Grid Source may hand out in one run
MaxHandles == 4

\* the days of the longest daily series that is aggregated
MaxSeriesDays == 12

\* the latitudes of the largest grid that is packed
MaxLatCount == 3

\* the calls of a run that exercises the land masks
MaxMasked == 3

\* the requests of a run that exercises the region masks
MaxRegional == 2

\* the periods the server may hold after the known ones
MaxCandidates == 11

\* the calls of get_available_periods in a run
MaxPeriodCalls == 3

\* the hours a run lasts
MaxTime == 3

\* the requests one run with failures may start
MaxFaulty == 2

\* the whole days of a dataset whose daily series are computed
MaxDailyDays == 2

Periods == {"202508", "202601"}

\* the periods get_available_periods starts from
KNOWN_PERIODS == Periods

\* a period the server does not have
UnknownPeriod == "209901"

Subsamples == {1}

Threads == {1, 2}

None == << >>

Some(x) == << x >>

\* ------------------------------------------------------------------ helpers

Min(a, b) == IF a < b THEN a ELSE b

RECURSIVE SumSet(_, _)
\* sum of f[x] for x in S
SumSet(f, S) ==
  IF S = {} THEN 0
  ELSE LET x == CHOOSE y \in S : TRUE IN f[x] + SumSet(f, S \ {x})

\* ------------------------------------------------------------------ grid source

\* len(a[::s]) for an axis of n points
SubCount(n, s) == (n + s - 1) \div s

\* the source index (1-based) of position i (1-based) of a[::s]
SubIndex(i, s) == (i - 1) * s + 1

\* the pixels of a grid of ds subsampled by s
SubPixels(ds, s) == (1 .. SubCount(ds.nlat, s)) \X (1 .. SubCount(ds.nlon, s))

\* ds['pr'].isel(time=t).isel(lat=slice(None,None,s), lon=slice(None,None,s)):
\* t is 0-based, a negative t counts from the end
ReadSlice(ds, t, s) ==
  LET k == IF t < 0 THEN t + ds.ntime ELSE t
  IN  [p \in SubPixels(ds, s) |->
         ds.pr[k + 1][<<SubIndex(p[1], s), SubIndex(p[2], s)>>]]

\* a reading that is not a number (nan): every comparison with it is False
NaN == 500

\* a fill-value test that lets the negative readings through
IsValidAnySign(v) == (v # NaN) /\ (v > -FillBound) /\ (v < FillBound)

\* the fill-value test: (v > -1e30) & (v < 1e30) & (v >= 0)
IsValid(v) == (v # NaN) /\ (v > -FillBound) /\ (v < FillBound) /\ (v >= 0)

\* total_days = len(ds.time) // TIME_STEPS_PER_DAY
TotalDays(ds) == ds.ntime \div TIME_STEPS_PER_DAY

\* range(start_time_idx, end_time_idx) of a day, as a set of 0-based indices
DayIndices(ds, day) ==
  LET start_time_idx == day * TIME_STEPS_PER_DAY
      end_time_idx   == Min(start_time_idx + TIME_STEPS_PER_DAY, ds.ntime)
  IN  start_time_idx .. (end_time_idx - 1)

\* ------------------------------------------------------------------ daily tile

\* daily_sum: fill samples count as 0, valid ones are converted to mm/day
DailySum(ds, day, s) ==
  [p \in SubPixels(ds, s) |->
     SumSet([t \in DayIndices(ds, day) |->
               IF IsValid(ReadSlice(ds, t, s)[p])
               THEN ReadSlice(ds, t, s)[p] * SECONDS_PER_DAY ELSE 0],
            DayIndices(ds, day))]

\* valid_count: the number of valid samples per pixel
ValidCount(ds, day, s) ==
  [p \in SubPixels(ds, s) |->
     Cardinality({t \in DayIndices(ds, day) : IsValid(ReadSlice(ds, t, s)[p])})]

\* a mean over all the samples of the day, valid or not
DailyValuesAllSamples(ds, day, s) ==
  [p \in SubPixels(ds, s) |->
     IF ValidCount(ds, day, s)[p] > 0
     THEN DailySum(ds, day, s)[p] \div Cardinality(DayIndices(ds, day))
     ELSE SENTINEL]

\* values = where(valid_count > 0, daily_sum / safe_count, -999)
DailyValues(ds, day, s) ==
  [p \in SubPixels(ds, s) |->
     LET valid_count == ValidCount(ds, day, s)[p]
         safe_count  == IF valid_count > 0 THEN valid_count ELSE 1
         avg         == DailySum(ds, day, s)[p] \div safe_count
     IN  IF valid_count > 0 THEN avg ELSE SENTINEL]

\* a mask that takes every pixel of the slice for land
LandMaskOfNoFillTest(ds, s) == [p \in SubPixels(ds, s) |-> TRUE]

\* land_mask of get_land_mask: the validity pattern of time slice 0
LandMaskOf(ds, s) == [p \in SubPixels(ds, s) |-> IsValid(ReadSlice(ds, 0, s)[p])]

\* if land_mask is not None and land_mask.shape == values.shape:
\*     values = where(land_mask, values, -999)
ApplyLandMask(values, land_mask) ==
  IF land_mask # None /\ DOMAIN land_mask[1] = DOMAIN values
  THEN [p \in DOMAIN values |-> IF land_mask[1][p] THEN values[p] ELSE SENTINEL]
  ELSE values

\* the dict get_cached_precip_data returns
MakeTile(ds, day, s, values) ==
  [values     |-> values,
   nlat       |-> SubCount(ds.nlat, s),
   nlon       |-> SubCount(ds.nlon, s),
   total_days |-> TotalDays(ds)]

\* ------------------------------------------------------------------ state

VARIABLES
  src,              \* the Grid Source: the dataset of every period
  up,               \* period -> whether its file opens (open_dataset raises if not)
  handles,          \* every handle the Grid Source has handed out, in order
  dataset_cache,    \* _dataset_cache: period -> handle
  land_mask_cache,  \* _land_mask_cache: subsample -> mask
  zom_mask_cache,   \* _zom_mask_cache: cache_key -> region mask
  tile_cache,       \* lru_cache of get_cached_precip_data, least recent first
  hits,             \* cache_info().hits
  misses,           \* cache_info().misses
  th,               \* the request threads
  started,          \* the requests started so far
  daily_series,     \* the daily points a time-series handler has collected
  time_series,      \* the points it answers with in the mode asked for
  cached,           \* the tile dict a binary endpoint is about to pack
  binary_data,      \* the bytes it answers with
  available_periods_cache,       \* _available_periods_cache
  available_periods_cache_time,  \* _available_periods_cache_time
  current_time,     \* time_module.time()
  present,          \* the periods after the known ones whose file opens
  force_refresh,    \* the argument of the last get_available_periods call
  probed,           \* the periods that call tried to open, in order
  available         \* the list it returned

\* the locals of the response builders that are checked on their own
periods_state == <<available_periods_cache, available_periods_cache_time, current_time,
                   present, force_refresh, probed, available>>

locals == <<daily_series, time_series, cached, binary_data, periods_state>>

vars == <<src, up, handles, dataset_cache, land_mask_cache, zom_mask_cache, tile_cache,
          hits, misses, th, started, locals>>

\* the days a request may name
Days == 0 .. 1

\* the day indices a request may name when nothing restricts them
AnyDays == -1 .. 2

\* (period, day_index, subsample, apply_mask)
Keys == Periods \X Days \X Subsamples \X BOOLEAN

\* the Grid Source of the runs that exercise the caches: a 1 x 2 grid; pixel
\* (1,1) is land and pixel (1,2) ocean in the reference period; 202601 has 9
\* raw samples (2 days and a leftover sample) with partially valid days
SourceData ==
  [p \in Periods |->
     IF p = REFERENCE_PERIOD
     THEN [nlat |-> 1, nlon |-> 2, ntime |-> 8, hasPr |-> TRUE,
           pr |-> [t \in 1 .. 8 |->
                     (<<1, 1>> :> (t % 3)) @@ (<<1, 2>> :> FillPos)]]
     ELSE [nlat |-> 1, nlon |-> 2, ntime |-> 9, hasPr |-> TRUE,
           pr |-> [t \in 1 .. 9 |->
                     (<<1, 1>> :> (IF t % 2 = 0 THEN FillPos ELSE t))
                     @@ (<<1, 2>> :> (IF t > 4 THEN FillNeg ELSE 2))]]]

\* the raw readings the drawn datasets are made of: both fill values, a
\* negative reading, a zero and a positive reading
RawVals == {FillPos, FillNeg, -1, 0, 1}

\* the samples of one day of one pixel
DaySamples == [1 .. TIME_STEPS_PER_DAY -> RawVals]

\* the second day of a drawn dataset: the first day again, a day of fill values
\* only, or a day of one valid reading
SecondDays(day0) ==
  {day0, [i \in 1 .. TIME_STEPS_PER_DAY |-> FillPos],
         [i \in 1 .. TIME_STEPS_PER_DAY |-> 1]}

\* a two-day dataset on the 1 x 2 grid whose two pixels carry the same series
TwoDays(day0, day1) ==
  [nlat |-> 1, nlon |-> 2, ntime |-> 2 * TIME_STEPS_PER_DAY, hasPr |-> TRUE,
   pr |-> [t \in 1 .. 2 * TIME_STEPS_PER_DAY |->
             LET v == IF t <= TIME_STEPS_PER_DAY THEN day0[t]
                      ELSE day1[t - TIME_STEPS_PER_DAY]
             IN  (<<1, 1>> :> v) @@ (<<1, 2>> :> v)]]

\* the Grid Sources of the runs that exercise the arithmetic: the reference
\* period as in SourceData (pixel (1,1) land, pixel (1,2) ocean), the served
\* period drawn
DrawnSources ==
  {[p \in Periods |-> IF p = REFERENCE_PERIOD THEN SourceData[p] ELSE TwoDays(d0, d1)] :
     <<d0, d1>> \in {x \in DaySamples \X DaySamples : x[2] \in SecondDays(x[1])}}

NoKey == <<"", 0, 1, FALSE>>

\* shape(geometry) of a request body: a rectangle with corners (minx, miny) and
\* (maxx, maxy), x the longitude and y the latitude, or the polygon without
\* points, whose bounds are not numbers.  A mesh point has its indices as
\* latitude and longitude.
Rect(minx, miny, maxx, maxy) ==
  [empty |-> FALSE, minx |-> minx, miny |-> miny, maxx |-> maxx, maxy |-> maxy]

EmptyPolygon == [empty |-> TRUE, minx |-> NaN, miny |-> NaN, maxx |-> NaN, maxy |-> NaN]

\* the regions a request may send: a name and a polygon; one name, two
\* polygons, of which the first contains the mesh point (1, 1) only
Regions == {[name |-> "Z", poly |-> Rect(0, 0, 2, 2)], [name |-> "Z", poly |-> EmptyPolygon]}

\* the regions of the runs that exercise the region masks: the bounding box of
\* a 3 x 3 grid, a rectangle around it, the polygon without points, a
\* rectangle without width, and a second name
DrawnRegions ==
  {[name |-> "Z", poly |-> Rect(1, 1, 3, 3)],
   [name |-> "Z", poly |-> Rect(0, 0, 4, 4)],
   [name |-> "Z", poly |-> EmptyPolygon],
   [name |-> "Z", poly |-> Rect(2, 1, 2, 3)],
   [name |-> "Z_3", poly |-> Rect(0, 0, 4, 4)]}

\* a request thread: the handler it runs (op), its position (pc, phase), the
\* locals of the get_cached_precip_data call in progress (key .. result) and
\* the locals of the handler (day .. out, zom)
IdleThread ==
  [op |-> "idle", pc |-> "idle", phase |-> "", key |-> NoKey, ctx |-> "handler",
   ds |-> 0, hit |-> FALSE, failed |-> FALSE, vals |-> << >>, lm |-> None,
   result |-> None, day |-> 0, lo |-> 0, hi |-> 0, mask |-> FALSE, acc |-> None,
   valid_counts |-> None, used |-> << >>, count |-> 0, cached_count |-> 0,
   already_cached |-> 0, before |-> 0, use_cache |-> FALSE, opened |-> FALSE,
   evicted |-> {}, status |-> "", out |-> None, zom |-> None,
   lat_idx |-> 0, lon_idx |-> 0]

\* get_available_periods has not been called, and the server holds no file
\* after the known ones
NoPeriods ==
  /\ available_periods_cache = None
  /\ available_periods_cache_time = 0
  /\ current_time = 0
  /\ present = {}
  /\ force_refresh = FALSE
  /\ probed = << >>
  /\ available = None

\* no response is being built
NoLocals ==
  /\ daily_series = << >>
  /\ time_series = None
  /\ cached = None
  /\ binary_data = << >>
  /\ NoPeriods

\* everything but the Grid Source
InitState ==
  /\ NoLocals
  /\ up \in [Periods -> BOOLEAN]
  /\ handles = << >>
  /\ dataset_cache = << >>
  /\ land_mask_cache = << >>
  /\ zom_mask_cache = << >>
  /\ tile_cache = << >>
  /\ hits = 0
  /\ misses = 0
  /\ th = [t \in Threads |-> IdleThread]
  /\ started = 0

Init == src = SourceData /\ InitState

InitData == src \in DrawnSources /\ InitState

\* the Grid Sources of the runs with failures: SourceData, and SourceData whose
\* 202601 has no 'pr' variable
FaultySources == {SourceData, [SourceData EXCEPT !["202601"].hasPr = FALSE]}

InitFaulty == src \in FaultySources /\ InitState

\* the readings a pixel of the reference slice may hold: both fill values, a
\* negative reading, a zero, a positive reading and a non-number
Readings == {FillPos, FillNeg, -1, 0, 1, NaN}

\* the Grid Sources of the runs that exercise the land masks: SourceData with
\* the two pixels of time slice 0 of the reference period drawn
MaskSources ==
  {[SourceData EXCEPT ![REFERENCE_PERIOD].pr[1] = (<<1, 1>> :> a) @@ (<<1, 2>> :> b)] :
     a \in Readings, b \in Readings}

InitMask == src \in MaskSources /\ InitState

\* the Grid Source of the runs that exercise the region masks: the reference
\* period on its 1 x 2 grid, 202601 on a 3 x 3 grid with one day of samples
RegionData ==
  [p \in Periods |->
     IF p = REFERENCE_PERIOD THEN SourceData[p]
     ELSE [nlat |-> 3, nlon |-> 3, ntime |-> TIME_STEPS_PER_DAY, hasPr |-> TRUE,
           pr |-> [t \in 1 .. TIME_STEPS_PER_DAY |-> [px \in (1 .. 3) \X (1 .. 3) |-> 1]]]]

InitRegion == src = RegionData /\ InitState

\* ------------------------------------------------------------------ lru_cache

CacheKeys(cache) == {cache[i].key : i \in 1 .. Len(cache)}

CacheIndex(cache, key) == CHOOSE i \in 1 .. Len(cache) : cache[i].key = key

CacheTile(cache, key) == cache[CacheIndex(cache, key)].tile

Remove(cache, i) == [j \in 1 .. Len(cache) - 1 |-> IF j < i THEN cache[j] ELSE cache[j + 1]]

\* a hit moves the entry to the most recent end; now is the number of the
\* access (hits + misses), kept in the entry as the time of its last access
Touch(cache, key, now) ==
  LET i == CacheIndex(cache, key)
  IN  Append(Remove(cache, i), [cache[i] EXCEPT !.at = now])

\* an insertion that drops the most recently used entry when the cache is full
StoreEvictNewest(cache, key, tile, now) ==
  IF key \in CacheKeys(cache) THEN cache
  ELSE IF Len(cache) < maxsize
  THEN Append(cache, [key |-> key, tile |-> tile, at |-> now])
  ELSE Append(Remove(cache, Len(cache)), [key |-> key, tile |-> tile, at |-> now])

\* a cache that stores nothing
StoreNothing(cache, key, tile, now) == cache

\* the insertion after a miss: nothing if the key arrived meanwhile, append when
\* there is room, else replace the least recently used entry
Store(cache, key, tile, now) ==
  IF key \in CacheKeys(cache) THEN cache
  ELSE IF Len(cache) < maxsize
  THEN Append(cache, [key |-> key, tile |-> tile, at |-> now])
  ELSE Append(Remove(cache, 1), [key |-> key, tile |-> tile, at |-> now])

\* get_dataset that never finds the period in the map
HasDatasetNever(map, period) == FALSE

\* period in _dataset_cache
HasDataset(map, period) == period \in DOMAIN map

\* ------------------------------------------------------------------ threads

Set(t, r) == th' = [th EXCEPT ![t] = r]

Put(f, k, v) == [x \in DOMAIN f \cup {k} |-> IF x = k THEN v ELSE f[x]]

\* where a get_dataset or get_land_mask call returns to
AfterDataset(r) == IF r.ctx = "tile" THEN "read" ELSE "ret_ds"

AfterLandMask(r) == IF r.ctx = "tile" THEN "insert" ELSE "ret_lm"

\* the call get_cached_precip_data(key) made by a handler
CallTile(r, key) ==
  [r EXCEPT !.pc = "lookup", !.key = key, !.ctx = "tile", !.hit = FALSE,
            !.failed = FALSE, !.result = None, !.lm = None, !.vals = << >>,
            !.evicted = {}]

\* the lru_cache wrapper: a hit returns the stored tile and refreshes its
\* recency, a miss counts and runs the body
Lookup(t) ==
  /\ th[t].pc = "lookup"
  /\ IF th[t].key \in CacheKeys(tile_cache)
     THEN /\ tile_cache' = Touch(tile_cache, th[t].key, hits + misses + 1)
          /\ hits' = hits + 1
          /\ misses' = misses
          /\ Set(t, [th[t] EXCEPT !.pc = "ret", !.hit = TRUE,
                                  !.result = Some(CacheTile(tile_cache, th[t].key))])
     ELSE /\ misses' = misses + 1
          /\ UNCHANGED <<tile_cache, hits>>
          /\ Set(t, [th[t] EXCEPT !.pc = "ds_check"])
  /\ UNCHANGED <<locals, src, up, zom_mask_cache, handles, dataset_cache, land_mask_cache, started>>

\* get_dataset: if period in _dataset_cache: return _dataset_cache[period]
DsCheck(t) ==
  /\ th[t].pc = "ds_check"
  /\ IF HasDataset(dataset_cache, th[t].key[1])
     THEN Set(t, [th[t] EXCEPT !.ds = dataset_cache[th[t].key[1]],
                               !.opened = FALSE,
                               !.pc = AfterDataset(th[t])])
     ELSE Set(t, [th[t] EXCEPT !.pc = "ds_open"])
  /\ UNCHANGED <<locals, src, up, zom_mask_cache, handles, dataset_cache, land_mask_cache, tile_cache, hits,
                 misses, started>>

\* get_dataset: ds = xr.open_dataset(url); _dataset_cache[period] = ds.
\* The open raises when the Grid Source does not answer; nothing is stored then.
DsOpen(t) ==
  /\ th[t].pc = "ds_open"
  /\ Len(handles) < MaxHandles
  /\ IF up[th[t].key[1]]
       THEN /\ handles' = Append(handles, [period |-> th[t].key[1],
                                           by |-> "get_dataset", closed |-> FALSE])
            /\ dataset_cache' = Put(dataset_cache, th[t].key[1], Len(handles) + 1)
            /\ Set(t, [th[t] EXCEPT !.ds = Len(handles) + 1,
                                    !.opened = TRUE,
                                    !.pc = AfterDataset(th[t])])
       ELSE /\ UNCHANGED <<handles, dataset_cache>>
            /\ Set(t, [th[t] EXCEPT !.failed = TRUE,
                          !.pc = IF th[t].ctx = "tile" THEN "ret" ELSE "ret_ds"])
  /\ UNCHANGED <<locals, src, up, zom_mask_cache, land_mask_cache, tile_cache, hits, misses, started>>

\* a body that reads the slices without looking for the 'pr' variable first
ReadWithoutPrCheck(t) ==
  /\ th[t].pc = "read"
  /\ LET k  == th[t].key
         ds == src[k[1]]
     IN  IF \/ handles[th[t].ds].closed
            \/ ~up[k[1]]
            \/ DayIndices(ds, k[2]) = {}
            \/ \E i \in DayIndices(ds, k[2]) : i < -ds.ntime
         THEN Set(t, [th[t] EXCEPT !.failed = TRUE, !.pc = "ret"])
         ELSE Set(t, [th[t] EXCEPT !.vals = DailyValues(ds, k[2], k[3]),
                                   !.pc = IF k[4] THEN "lm_check" ELSE "insert"])
  /\ UNCHANGED <<locals, src, up, zom_mask_cache, handles, dataset_cache, land_mask_cache, tile_cache,
                 hits, misses, started>>

\* the body of get_cached_precip_data after get_dataset: the 'pr' check, the
\* slice reads of the day and the per-pixel average of the valid samples
Read(t) ==
  /\ th[t].pc = "read"
  /\ LET k  == th[t].key
         ds == src[k[1]]
     IN  IF \/ handles[th[t].ds].closed
            \/ ~up[k[1]]
            \/ ~ds.hasPr
            \/ DayIndices(ds, k[2]) = {}
            \/ \E i \in DayIndices(ds, k[2]) : i < -ds.ntime
         THEN Set(t, [th[t] EXCEPT !.failed = TRUE, !.pc = "ret"])
         ELSE Set(t, [th[t] EXCEPT !.vals = DailyValues(ds, k[2], k[3]),
                                   !.pc = IF k[4] THEN "lm_check" ELSE "insert"])
  /\ UNCHANGED <<locals, src, up, zom_mask_cache, handles, dataset_cache, land_mask_cache, tile_cache, hits,
                 misses, started>>

\* a get_land_mask that returns whatever mask the map holds
LmCheckAnyFactor(t) ==
  /\ th[t].pc = "lm_check"
  /\ IF DOMAIN land_mask_cache # {}
     THEN \E s \in DOMAIN land_mask_cache :
            Set(t, [th[t] EXCEPT !.lm = Some(land_mask_cache[s]),
                                 !.pc = AfterLandMask(th[t])])
     ELSE Set(t, [th[t] EXCEPT !.pc = "lm_load"])
  /\ UNCHANGED <<locals, src, up, zom_mask_cache, handles, dataset_cache, land_mask_cache, tile_cache, hits,
                 misses, started>>

\* get_land_mask: if subsample in _land_mask_cache: return it
LmCheck(t) ==
  /\ th[t].pc = "lm_check"
  /\ IF th[t].key[3] \in DOMAIN land_mask_cache
     THEN Set(t, [th[t] EXCEPT !.lm = Some(land_mask_cache[th[t].key[3]]),
                               !.pc = AfterLandMask(th[t])])
     ELSE Set(t, [th[t] EXCEPT !.pc = "lm_load"])
  /\ UNCHANGED <<locals, src, up, zom_mask_cache, handles, dataset_cache, land_mask_cache, tile_cache, hits,
                 misses, started>>

\* a get_land_mask that stores an empty mask when the load fails
LmLoadStoresFailure(t) ==
  /\ th[t].pc = "lm_load"
  /\ Len(handles) < MaxHandles
  /\ IF up[REFERENCE_PERIOD]
       THEN /\ handles' = Append(handles, [period |-> REFERENCE_PERIOD,
                                           by |-> "get_land_mask", closed |-> TRUE])
            /\ land_mask_cache' = Put(land_mask_cache, th[t].key[3],
                                      LandMaskOf(src[REFERENCE_PERIOD], th[t].key[3]))
            /\ Set(t, [th[t] EXCEPT
                         !.lm = Some(LandMaskOf(src[REFERENCE_PERIOD], th[t].key[3])),
                         !.pc = AfterLandMask(th[t])])
       ELSE /\ handles' = handles
            /\ land_mask_cache' = Put(land_mask_cache, th[t].key[3], << >>)
            /\ Set(t, [th[t] EXCEPT !.lm = None, !.pc = AfterLandMask(th[t])])
  /\ UNCHANGED <<locals, src, up, zom_mask_cache, dataset_cache, tile_cache, hits, misses, started>>

\* get_land_mask: open the reference period, read time slice 0, close, store;
\* any exception is caught and None returned
LmLoad(t) ==
  /\ th[t].pc = "lm_load"
  /\ Len(handles) < MaxHandles
  /\ IF up[REFERENCE_PERIOD]
       THEN /\ handles' = Append(handles, [period |-> REFERENCE_PERIOD,
                                           by |-> "get_land_mask", closed |-> TRUE])
            /\ land_mask_cache' = Put(land_mask_cache, th[t].key[3],
                                      LandMaskOf(src[REFERENCE_PERIOD], th[t].key[3]))
            /\ Set(t, [th[t] EXCEPT
                         !.lm = Some(LandMaskOf(src[REFERENCE_PERIOD], th[t].key[3])),
                         !.pc = AfterLandMask(th[t])])
       ELSE /\ UNCHANGED <<handles, land_mask_cache>>
            /\ Set(t, [th[t] EXCEPT !.lm = None, !.pc = AfterLandMask(th[t])])
  /\ UNCHANGED <<locals, src, up, zom_mask_cache, dataset_cache, tile_cache, hits, misses, started>>

\* the end of the body and the wrapper's insertion of the returned dict
Insert(t) ==
  /\ th[t].pc = "insert"
  /\ LET k    == th[t].key
         vals == IF k[4] THEN ApplyLandMask(th[t].vals, th[t].lm) ELSE th[t].vals
         tile == MakeTile(src[k[1]], k[2], k[3], vals)
     IN  /\ tile_cache' = Store(tile_cache, k, tile, hits + misses)
         /\ Set(t, [th[t] EXCEPT
                      !.result = Some(tile), !.pc = "ret",
                      !.evicted = CacheKeys(tile_cache) \ CacheKeys(tile_cache')])
  /\ UNCHANGED <<locals, src, up, zom_mask_cache, handles, dataset_cache, land_mask_cache, hits, misses, started>>

\* ------------------------------------------------------------------ handlers

\* how the requests of a run are admitted: concurrently or one at a time, how
\* many, and for which periods
Concurrent == [conc |-> TRUE, limit |-> MaxConcurrent, periods |-> {"202601"}, days |-> Days,
  regions |-> Regions]

Sequential == [conc |-> FALSE, limit |-> MaxRequests, periods |-> Periods, days |-> Days,
  regions |-> Regions]

Single == [conc |-> FALSE, limit |-> 1, periods |-> Periods \ {REFERENCE_PERIOD},
           days |-> Days,
  regions |-> Regions]

\* requests that may name any period and any day, two of them in a row
Faulty == [conc |-> FALSE, limit |-> MaxFaulty, periods |-> Periods \cup {UnknownPeriod},
           days |-> AnyDays,
  regions |-> Regions]

\* three calls in a row, of get_land_mask or of the endpoints that use it
Masked == [conc |-> FALSE, limit |-> MaxMasked, periods |-> {"202601"}, days |-> {0},
  regions |-> Regions]

\* two region requests in a row, for either period
Regional == [conc |-> FALSE, limit |-> MaxRegional, periods |-> Periods, days |-> {0},
  regions |-> DrawnRegions]

\* whether a handler may start on thread t (the lowest idle one)
MayStart(t, mode) ==
  /\ th[t].op = "idle"
  /\ started < mode.limit
  /\ \A u \in Threads : u < t => th[u].op # "idle"
  /\ mode.conc \/ \A u \in Threads : th[u].op = "idle"

shared == <<src, up, handles, dataset_cache, land_mask_cache, zom_mask_cache, tile_cache,
            hits, misses, locals>>

\* the end of a handler: the response is in status and out
Done(r, status, out) == [r EXCEPT !.pc = "done", !.status = status, !.out = out]

\* get_available_periods(): KNOWN_PERIODS and the periods found by probing the
\* server from FIRST_DYNAMIC_PERIOD on; the Grid Source of the model has no
\* file after the known ones, so the first probe fails and the list ends there
get_available_periods == KNOWN_PERIODS

\* a handler that serves whatever period it is asked for
CheckPeriodNever(op, period, r) == r

\* if period not in available_periods: return jsonify({'error': ...}), 400
CheckPeriod(op, period, r) ==
  IF period \in get_available_periods THEN r
  ELSE Done([IdleThread EXCEPT !.op = op, !.key = <<period, 0, 1, FALSE>>], "invalid", None)

Return(t) ==
  /\ th[t].pc = "done"
  /\ Set(t, IdleThread)
  /\ UNCHANGED <<shared, started>>

\* ------------------------------------------------------------------ get_land_mask

\* the subsampling factors get_land_mask is called with
LandMaskFactors == {1, 2}

\* a call get_land_mask(subsample) of its own
LandMaskCall(t, mode) ==
  /\ MayStart(t, mode)
  /\ \E subsample \in LandMaskFactors :
       Set(t, [IdleThread EXCEPT !.op = "mask", !.pc = "lm_check",
                                 !.key = <<REFERENCE_PERIOD, 0, subsample, TRUE>>])
  /\ started' = started + 1
  /\ UNCHANGED shared

\* its return value: the mask, or None after an exception
LandMaskReturn(t) ==
  /\ th[t].op = "mask"
  /\ th[t].pc = "ret_lm"
  /\ Set(t, Done(th[t], IF th[t].lm = None THEN "error" ELSE "ok", th[t].lm))
  /\ UNCHANGED <<shared, started>>

\* ------------------------------------------------------------------ /api/precipitation/binary

TileRequest(t, mode) ==
  /\ MayStart(t, mode)
  /\ \E k \in mode.periods \X mode.days \X Subsamples \X BOOLEAN :
       Set(t, CheckPeriod("tile", k[1], CallTile([IdleThread EXCEPT !.op = "tile"], k)))
  /\ started' = started + 1
  /\ UNCHANGED shared

\* the response: the packed tile, or the error of the except clause
TileRespond(t) ==
  /\ th[t].op = "tile"
  /\ th[t].pc = "ret"
  /\ Set(t, IF th[t].failed THEN Done(th[t], "error", None)
            ELSE Done(th[t], "ok", th[t].result))
  /\ UNCHANGED <<shared, started>>

\* ------------------------------------------------------------------ /api/prefetch

PrefetchRequest(t, mode) ==
  /\ MayStart(t, mode)
  /\ \E p \in mode.periods, m \in BOOLEAN :
       Set(t, CheckPeriod("prefetch", p,
                          [IdleThread EXCEPT !.op = "prefetch", !.pc = "ds_check",
                                             !.key = <<p, 0, 1, m>>, !.mask = m]))
  /\ started' = started + 1
  /\ UNCHANGED shared

\* a loop that asks for the tile of day 0 every time
PrefetchCallFirstDay(r, day) ==
  CallTile([r EXCEPT !.day = day, !.before = hits], <<r.key[1], 0, 1, r.mask>>)

\* cache_info_before = cache_info(); get_cached_precip_data(period, day, ...)
PrefetchCall(r, day) ==
  CallTile([r EXCEPT !.day = day, !.before = hits], <<r.key[1], day, 1, r.mask>>)

\* after get_dataset: total_days, then the first day of the loop
PrefetchBegin(t) ==
  /\ th[t].op = "prefetch"
  /\ th[t].pc = "ret_ds"
  /\ LET total_days == TotalDays(src[th[t].key[1]])
     IN  Set(t, IF th[t].failed THEN Done(th[t], "error", None)
                ELSE IF total_days = 0 THEN Done(th[t], "ok", Some(<<0, 0, 0>>))
                ELSE PrefetchCall([th[t] EXCEPT !.hi = total_days], 0))
  /\ UNCHANGED <<shared, started>>

\* cache_info_after = cache_info(): more hits than before counts the day as
\* already cached, else as newly cached; then the next day or the response
PrefetchAfter(t) ==
  /\ th[t].op = "prefetch"
  /\ th[t].pc = "ret"
  /\ LET r == IF hits > th[t].before
              THEN [th[t] EXCEPT !.already_cached = @ + 1]
              ELSE [th[t] EXCEPT !.cached_count = @ + 1]
     IN  Set(t, IF th[t].failed THEN Done(th[t], "error", None)
                ELSE IF th[t].day + 1 < th[t].hi THEN PrefetchCall(r, th[t].day + 1)
                ELSE Done(r, "ok", Some(<<r.hi, r.cached_count, r.already_cached>>)))
  /\ UNCHANGED <<shared, started>>

\* ------------------------------------------------------------------ /api/cache/clear

ClearRequest(t, mode) ==
  /\ MayStart(t, mode)
  /\ Set(t, [IdleThread EXCEPT !.op = "clear", !.pc = "clear_lru"])
  /\ started' = started + 1
  /\ UNCHANGED shared

\* get_cached_precip_data.cache_clear(): drops the entries and the statistics
ClearLru(t) ==
  /\ th[t].pc = "clear_lru"
  /\ tile_cache' = << >>
  /\ hits' = 0
  /\ misses' = 0
  /\ Set(t, [th[t] EXCEPT !.pc = "clear_ds"])
  /\ UNCHANGED <<locals, src, up, zom_mask_cache, handles, dataset_cache, land_mask_cache, started>>

\* a clear that forgets to close
CloseNone(hs, map) == hs

\* the handles of the map with every one of them closed
CloseAll(hs, map) ==
  [i \in 1 .. Len(hs) |->
     IF \E p \in DOMAIN map : map[p] = i THEN [hs[i] EXCEPT !.closed = TRUE] ELSE hs[i]]

\* for period, ds in _dataset_cache.items(): ds.close(); _dataset_cache = {}
ClearDs(t) ==
  /\ th[t].pc = "clear_ds"
  /\ handles' = CloseAll(handles, dataset_cache)
  /\ dataset_cache' = << >>
  /\ Set(t, [th[t] EXCEPT !.pc = "clear_lm"])
  /\ UNCHANGED <<locals, src, up, zom_mask_cache, land_mask_cache, tile_cache, hits, misses, started>>

\* _land_mask_cache = {}
ClearLm(t) ==
  /\ th[t].pc = "clear_lm"
  /\ land_mask_cache' = << >>
  /\ Set(t, Done(th[t], "cleared", None))
  /\ UNCHANGED <<locals, src, up, zom_mask_cache, handles, dataset_cache, tile_cache, hits, misses, started>>

\* ------------------------------------------------------------------ /api/precipitation/aggregated/binary

\* values = where(values == -999, nan, values)
NanOf(values) ==
  [p \in DOMAIN values |->
     IF values[p] = SENTINEL THEN [nan |-> TRUE, v |-> 0]
     ELSE [nan |-> FALSE, v |-> values[p]]]

\* nansum([aggregated_values, values], axis=0): a NaN counts as 0, and the sum
\* of two NaNs is 0
NanSum(a, b) ==
  [p \in DOMAIN a |->
     [nan |-> FALSE,
      v   |-> (IF a[p].nan THEN 0 ELSE a[p].v) + (IF b[p].nan THEN 0 ELSE b[p].v)]]

\* nan_to_num(aggregated_values, nan=-999)
NanToNum(a) == [p \in DOMAIN a |-> IF a[p].nan THEN SENTINEL ELSE a[p].v]

\* valid_mask = (values != -999), added up over the days
AddValid(valid_counts, values) ==
  [p \in DOMAIN values |->
     (IF valid_counts = None THEN 0 ELSE valid_counts[1][p])
     + (IF values[p] # SENTINEL THEN 1 ELSE 0)]

\* aggregated_values = aggregated_values  #/ valid_counts
Averaged(aggregated_values, valid_counts) == aggregated_values

AggRequest(t, mode) ==
  /\ MayStart(t, mode)
  /\ \E p \in mode.periods, start_day \in mode.days, end_day \in mode.days, m \in BOOLEAN :
       Set(t, CheckPeriod("agg", p,
                CallTile([IdleThread EXCEPT
                            !.op = "agg", !.phase = "sum", !.mask = m,
                            !.lo = start_day, !.day = start_day,
                            !.hi = IF end_day < start_day THEN start_day ELSE end_day],
                         <<p, start_day, 1, m>>)))
  /\ started' = started + 1
  /\ UNCHANGED shared

\* after the loops: the land mask when masked, then the response
AggFinal(r) ==
  IF r.mask THEN [r EXCEPT !.pc = "lm_check", !.ctx = "handler", !.lm = None]
  ELSE [r EXCEPT !.pc = "ret_lm", !.lm = None]

\* a first loop that skips the days whose tile fails
AggSumSkipsFailure(t) ==
  /\ th[t].op = "agg"
  /\ th[t].pc = "ret"
  /\ th[t].phase = "sum"
  /\ LET r == IF th[t].failed THEN th[t]
              ELSE [th[t] EXCEPT
                      !.acc = IF th[t].acc = None
                              THEN Some(NanOf(th[t].result[1].values))
                              ELSE Some(NanSum(th[t].acc[1], NanOf(th[t].result[1].values))),
                      !.used = Append(@, th[t].result[1].values),
                      !.count = @ + 1]
     IN  Set(t, IF th[t].day < th[t].hi
                THEN CallTile([r EXCEPT !.day = th[t].day + 1],
                              <<r.key[1], th[t].day + 1, 1, r.mask>>)
                ELSE IF r.acc = None THEN Done(r, "error", None)
                ELSE Done(r, "ok", Some(NanToNum(r.acc[1]))))
  /\ UNCHANGED <<shared, started>>

\* a first loop that works on the array of the cached tile itself, without
\* the copy: the sentinel pixels of the stored tile are overwritten
AggSumInPlace(t) ==
  /\ th[t].op = "agg"
  /\ th[t].pc = "ret"
  /\ th[t].phase = "sum"
  /\ LET values == NanOf(th[t].result[1].values)
         r == [th[t] EXCEPT
                 !.acc = IF th[t].acc = None THEN Some(values)
                         ELSE Some(NanSum(th[t].acc[1], values)),
                 !.used = Append(@, th[t].result[1].values),
                 !.count = @ + 1]
     IN  /\ Set(t, IF th[t].failed THEN Done(th[t], "error", None)
                   ELSE IF th[t].day < th[t].hi
                   THEN CallTile([r EXCEPT !.day = th[t].day + 1],
                                 <<r.key[1], th[t].day + 1, 1, r.mask>>)
                   ELSE IF r.count > 1
                   THEN CallTile([r EXCEPT !.phase = "count", !.day = r.lo],
                                 <<r.key[1], r.lo, 1, r.mask>>)
                   ELSE AggFinal(r))
         /\ tile_cache' =
              [i \in 1 .. Len(tile_cache) |->
                 IF tile_cache[i].key = th[t].key /\ ~th[t].failed
                 THEN [tile_cache[i] EXCEPT
                         !.tile.values = [px \in DOMAIN @ |-> IF values[px].nan THEN 0 ELSE @[px]]]
                 ELSE tile_cache[i]]
  /\ UNCHANGED <<locals, src, up, handles, dataset_cache, land_mask_cache, zom_mask_cache,
                 hits, misses, started>>

\* the first loop: one tile per day, summed with NaN for the sentinel
AggSum(t) ==
  /\ th[t].op = "agg"
  /\ th[t].pc = "ret"
  /\ th[t].phase = "sum"
  /\ LET values == NanOf(th[t].result[1].values)
         r == [th[t] EXCEPT
                 !.acc = IF th[t].acc = None THEN Some(values)
                         ELSE Some(NanSum(th[t].acc[1], values)),
                 !.used = Append(@, th[t].result[1].values),
                 !.count = @ + 1]
     IN  Set(t, IF th[t].failed THEN Done(th[t], "error", None)
                ELSE IF th[t].day < th[t].hi
                THEN CallTile([r EXCEPT !.day = th[t].day + 1],
                              <<r.key[1], th[t].day + 1, 1, r.mask>>)
                ELSE IF r.count > 1
                THEN CallTile([r EXCEPT !.phase = "count", !.day = r.lo],
                              <<r.key[1], r.lo, 1, r.mask>>)
                ELSE AggFinal(r))
  /\ UNCHANGED <<shared, started>>

\* the second loop (count > 1): the tiles again, counting the valid days
AggCount(t) ==
  /\ th[t].op = "agg"
  /\ th[t].pc = "ret"
  /\ th[t].phase = "count"
  /\ LET r == [th[t] EXCEPT
                 !.valid_counts = Some(AddValid(th[t].valid_counts,
                                                th[t].result[1].values))]
     IN  Set(t, IF th[t].failed THEN Done(th[t], "error", None)
                ELSE IF th[t].day < th[t].hi
                THEN CallTile([r EXCEPT !.day = th[t].day + 1],
                              <<r.key[1], th[t].day + 1, 1, r.mask>>)
                ELSE AggFinal([r EXCEPT !.acc =
                                 Some(Averaged(r.acc[1], r.valid_counts[1]))]))
  /\ UNCHANGED <<shared, started>>

\* nan_to_num, the land mask, and the packed grid
AggRespond(t) ==
  /\ th[t].op = "agg"
  /\ th[t].pc = "ret_lm"
  /\ LET aggregated_values == NanToNum(th[t].acc[1])
     IN  Set(t, Done(th[t], "ok",
                     Some(IF th[t].mask
                          THEN ApplyLandMask(aggregated_values, th[t].lm)
                          ELSE aggregated_values)))
  /\ UNCHANGED <<shared, started>>

\* ------------------------------------------------------------------ /api/timeseries

TsRequest(t, mode) ==
  /\ MayStart(t, mode)
  /\ \E p \in mode.periods :
       Set(t, CheckPeriod("ts", p, [IdleThread EXCEPT !.op = "ts", !.pc = "ds_check",
                                                      !.key = <<p, 0, 1, FALSE>>]))
  /\ started' = started + 1
  /\ UNCHANGED shared

\* after get_dataset: the 'pr' check, total_days, and the speculative fetch of
\* the tile of the last day
TsBegin(t) ==
  /\ th[t].op = "ts"
  /\ th[t].pc = "ret_ds"
  /\ LET ds == src[th[t].key[1]]
     IN  Set(t, IF th[t].failed \/ ~ds.hasPr THEN Done(th[t], "error", None)
                ELSE CallTile([th[t] EXCEPT !.phase = "check", !.hi = TotalDays(ds)],
                              <<th[t].key[1], TotalDays(ds) - 1, 1, FALSE>>))
  /\ UNCHANGED <<shared, started>>

\* use_cache = (check_time < 0.1): the measured latency decides, which either
\* outcome of the call can produce; an exception means the direct query
TsChecked(t) ==
  /\ th[t].op \in {"ts", "rts"}
  /\ th[t].pc = "ret"
  /\ th[t].phase = "check"
  /\ \E fast \in BOOLEAN :
       Set(t, IF fast /\ ~th[t].failed
              THEN CallTile([th[t] EXCEPT !.phase = "cache", !.use_cache = TRUE,
                                          !.day = 0],
                            <<th[t].key[1], 0, 1, FALSE>>)
              ELSE [th[t] EXCEPT !.pc = "direct", !.use_cache = FALSE])
  /\ UNCHANGED <<shared, started>>

\* the cached path: the tile of every day in turn; an exception falls back to
\* the direct query
TsCached(t) ==
  /\ th[t].op \in {"ts", "rts"}
  /\ th[t].pc = "ret"
  /\ th[t].phase = "cache"
  /\ Set(t, IF th[t].failed THEN [th[t] EXCEPT !.pc = "direct", !.use_cache = FALSE]
            ELSE IF th[t].day + 1 < th[t].hi
            THEN CallTile([th[t] EXCEPT !.day = th[t].day + 1],
                          <<th[t].key[1], th[t].day + 1, 1, FALSE>>)
            ELSE Done(th[t], "ok", None))
  /\ UNCHANGED <<shared, started>>

\* the direct query: every raw sample read from the handle of get_dataset
TsDirect(t) ==
  /\ th[t].op \in {"ts", "rts"}
  /\ th[t].pc = "direct"
  /\ Set(t, IF handles[th[t].ds].closed THEN Done(th[t], "error", None)
            ELSE Done(th[t], "ok", None))
  /\ UNCHANGED <<shared, started>>

\* ------------------------------------------------------------------ /api/times

TimesRequest(t, mode) ==
  /\ MayStart(t, mode)
  /\ \E p \in mode.periods :
       Set(t, CheckPeriod("times", p, [IdleThread EXCEPT !.op = "times", !.pc = "times_open",
                                                         !.key = <<p, 0, 1, FALSE>>]))
  /\ started' = started + 1
  /\ UNCHANGED shared

\* ds = xr.open_dataset(url); the dates of ds.time; ds.close(). The handle is the
\* handler's own; no variable but time is looked at
TimesOpen(t) ==
  /\ th[t].pc = "times_open"
  /\ Len(handles) < MaxHandles
  /\ IF up[th[t].key[1]]
       THEN /\ handles' = Append(handles, [period |-> th[t].key[1], by |-> "get_times",
                                           closed |-> TRUE])
            /\ Set(t, Done(th[t], "ok", Some(TotalDays(src[th[t].key[1]]))))
       ELSE /\ handles' = handles
            /\ Set(t, Done(th[t], "error", None))
  /\ UNCHANGED <<locals, src, up, zom_mask_cache, dataset_cache, land_mask_cache, tile_cache, hits,
                 misses, started>>

\* ------------------------------------------------------------------ /api/precipitation

\* time is a raw time index here
JsonRequest(t, mode) ==
  /\ MayStart(t, mode)
  /\ \E p \in mode.periods, time_index \in mode.days, m \in BOOLEAN :
       Set(t, CheckPeriod("json", p, [IdleThread EXCEPT !.op = "json", !.pc = "json_open",
                                                        !.key = <<p, time_index, 1, m>>,
                                                        !.mask = m]))
  /\ started' = started + 1
  /\ UNCHANGED shared

\* ds = xr.open_dataset(url), the handler's own handle; the 'pr' check; the
\* slice ds['pr'].isel(time=time_index) with fill values turned into -999
JsonOpen(t) ==
  /\ th[t].pc = "json_open"
  /\ Len(handles) < MaxHandles
  /\ LET k  == th[t].key
         ds == src[k[1]]
         h  == [period |-> k[1], by |-> "get_precipitation", closed |-> FALSE]
     IN  IF ~up[k[1]]
         THEN /\ handles' = handles
              /\ Set(t, Done(th[t], "error", None))
         ELSE IF ~ds.hasPr \/ k[2] >= ds.ntime \/ k[2] < -ds.ntime
         THEN /\ handles' = Append(handles, h)
              /\ Set(t, Done(th[t], "error", None))
         ELSE /\ handles' = Append(handles, h)
              /\ Set(t, [th[t] EXCEPT
                           !.ds = Len(handles) + 1,
                           !.vals = [px \in SubPixels(ds, k[3]) |->
                                       IF IsValid(ReadSlice(ds, k[2], k[3])[px])
                                       THEN ReadSlice(ds, k[2], k[3])[px] * SECONDS_PER_DAY
                                       ELSE SENTINEL],
                           !.ctx = "handler", !.lm = None,
                           !.pc = IF k[4] THEN "lm_check" ELSE "ret_lm"])
  /\ UNCHANGED <<locals, src, up, zom_mask_cache, dataset_cache, land_mask_cache, tile_cache, hits,
                 misses, started>>

\* the land mask when asked for, the response, ds.close()
JsonRespond(t) ==
  /\ th[t].op = "json"
  /\ th[t].pc = "ret_lm"
  /\ handles' = [handles EXCEPT ![th[t].ds].closed = TRUE]
  /\ Set(t, Done(th[t], "ok",
                 Some(IF th[t].mask THEN ApplyLandMask(th[t].vals, th[t].lm)
                      ELSE th[t].vals)))
  /\ UNCHANGED <<locals, src, up, zom_mask_cache, dataset_cache, land_mask_cache, tile_cache, hits,
                 misses, started>>

\* ------------------------------------------------------------------ region masks

\* a key made of the region name alone
ZomKeyNameOnly(name, nlat, nlon, suffix) == name

\* cache_key = f"{zom_name}_{len(lats)}_{len(lons)}", with the suffix
\* "_subsample" in get_region_precipitation
ZomKey(name, nlat, nlon, suffix) ==
  name \o "_" \o ToString(nlat) \o "_" \o ToString(nlon) \o suffix

\* a <= b of two floats: False when either is not a number
Leq(a, b) == a # NaN /\ b # NaN /\ a <= b

\* minx <= lon <= maxx and miny <= lat <= maxy, with polygon.bounds
InBounds(polygon, lon, lat) ==
  /\ Leq(polygon.minx, lon) /\ Leq(lon, polygon.maxx)
  /\ Leq(polygon.miny, lat) /\ Leq(lat, polygon.maxy)

\* prepared_polygon.contains(Point(lon, lat)): the point is in the interior of
\* the polygon; a point on its boundary is not contained
Contains(polygon, lon, lat) ==
  /\ ~polygon.empty
  /\ polygon.minx < lon /\ lon < polygon.maxx
  /\ polygon.miny < lat /\ lat < polygon.maxy

\* the mask of a polygon on the grid of ds subsampled by s: true at the mesh
\* points that pass the bounding-box test and that the polygon contains
RegionMask(zom, ds, s) ==
  [px \in SubPixels(ds, s) |->
     LET lat == SubIndex(px[1], s)
         lon == SubIndex(px[2], s)
     IN  InBounds(zom.poly, lon, lat) /\ Contains(zom.poly, lon, lat)]

\* if cache_key in _zom_mask_cache: use it, else compute and store
WithRegionMask(map, key, mask) == IF key \in DOMAIN map THEN map ELSE Put(map, key, mask)

\* ------------------------------------------------------------------ /api/timeseries/csv, /api/timeseries/region/csv

CsvRequest(t, mode) ==
  /\ MayStart(t, mode)
  /\ \E p \in mode.periods :
       Set(t, CheckPeriod("csv", p, [IdleThread EXCEPT !.op = "csv", !.pc = "ds_check",
                                                       !.key = <<p, 0, 1, FALSE>>]))
  /\ started' = started + 1
  /\ UNCHANGED shared

RegionCsvRequest(t, mode) ==
  /\ MayStart(t, mode)
  /\ \E p \in mode.periods, zom \in mode.regions :
       Set(t, CheckPeriod("rcsv", p, [IdleThread EXCEPT !.op = "rcsv", !.pc = "ds_check",
                                                        !.key = <<p, 0, 1, FALSE>>,
                                                        !.zom = Some(zom)]))
  /\ started' = started + 1
  /\ UNCHANGED shared

\* after get_dataset. The point CSV checks 'pr'; the region CSV builds or finds
\* its region mask. Then the tile of every day in turn, from day 0.
CsvBegin(t) ==
  /\ th[t].op \in {"csv", "rcsv"}
  /\ th[t].pc = "ret_ds"
  /\ LET ds  == src[th[t].key[1]]
         key == ZomKey(th[t].zom[1].name, ds.nlat, ds.nlon, "")
     IN  /\ zom_mask_cache' =
              IF th[t].op = "rcsv" /\ ~th[t].failed
              THEN WithRegionMask(zom_mask_cache, key, RegionMask(th[t].zom[1], ds, 1))
              ELSE zom_mask_cache
         /\ Set(t, IF th[t].failed \/ (th[t].op = "csv" /\ ~ds.hasPr)
                   THEN Done(th[t], "error", None)
                   ELSE IF TotalDays(ds) = 0 THEN Done(th[t], "ok", None)
                   ELSE CallTile([th[t] EXCEPT !.phase = "loop", !.day = 0,
                                               !.hi = TotalDays(ds)],
                                 <<th[t].key[1], 0, 1, FALSE>>))
  /\ UNCHANGED <<locals, src, up, handles, dataset_cache, land_mask_cache, tile_cache, hits,
                 misses, started>>

\* for day_idx in range(total_days): cached = get_cached_precip_data(...)
CsvLoop(t) ==
  /\ th[t].op \in {"csv", "rcsv"}
  /\ th[t].pc = "ret"
  /\ Set(t, IF th[t].failed THEN Done(th[t], "error", None)
            ELSE IF th[t].day + 1 < th[t].hi
            THEN CallTile([th[t] EXCEPT !.day = th[t].day + 1],
                          <<th[t].key[1], th[t].day + 1, 1, FALSE>>)
            ELSE Done(th[t], "ok", None))
  /\ UNCHANGED <<shared, started>>

\* ------------------------------------------------------------------ /api/timeseries/region

RegionTsRequest(t, mode) ==
  /\ MayStart(t, mode)
  /\ \E p \in mode.periods, zom \in mode.regions :
       Set(t, CheckPeriod("rts", p, [IdleThread EXCEPT !.op = "rts", !.pc = "ds_check",
                                                       !.key = <<p, 0, 1, FALSE>>,
                                                       !.zom = Some(zom)]))
  /\ started' = started + 1
  /\ UNCHANGED shared

\* after get_dataset: the 'pr' check, the region mask (found or built), the
\* 400 of a mask without points, and the speculative fetch of the last day
RegionTsBegin(t) ==
  /\ th[t].op = "rts"
  /\ th[t].pc = "ret_ds"
  /\ LET ds   == src[th[t].key[1]]
         key  == ZomKey(th[t].zom[1].name, ds.nlat, ds.nlon, "")
         map  == WithRegionMask(zom_mask_cache, key, RegionMask(th[t].zom[1], ds, 1))
     IN  IF th[t].failed \/ ~ds.hasPr
         THEN /\ zom_mask_cache' = zom_mask_cache
              /\ Set(t, Done(th[t], "error", None))
         ELSE /\ zom_mask_cache' = map
              /\ Set(t, IF \A px \in DOMAIN map[key] : ~map[key][px]
                        THEN Done(th[t], "invalid", None)
                        ELSE CallTile([th[t] EXCEPT !.phase = "check", !.hi = TotalDays(ds)],
                                      <<th[t].key[1], TotalDays(ds) - 1, 1, FALSE>>))
  /\ UNCHANGED <<locals, src, up, handles, dataset_cache, land_mask_cache, tile_cache, hits,
                 misses, started>>

\* ------------------------------------------------------------------ /api/precipitation/region

RegionAvgRequest(t, mode) ==
  /\ MayStart(t, mode)
  /\ \E p \in mode.periods, day_index \in mode.days, zom \in mode.regions :
       Set(t, CheckPeriod("ravg", p,
                CallTile([IdleThread EXCEPT !.op = "ravg", !.zom = Some(zom)],
                         <<p, day_index, 2, FALSE>>)))
  /\ started' = started + 1
  /\ UNCHANGED shared

\* the tile of subsample 2, then the region mask on the tile's grid
RegionAvgRespond(t) ==
  /\ th[t].op = "ravg"
  /\ th[t].pc = "ret"
  /\ LET ds  == src[th[t].key[1]]
         key == ZomKey(th[t].zom[1].name, SubCount(ds.nlat, 2), SubCount(ds.nlon, 2),
                       "_subsample")
     IN  IF th[t].failed
         THEN /\ zom_mask_cache' = zom_mask_cache
              /\ Set(t, Done(th[t], "error", None))
         ELSE /\ zom_mask_cache' =
                   WithRegionMask(zom_mask_cache, key, RegionMask(th[t].zom[1], ds, 2))
              /\ Set(t, Done(th[t], "ok", None))
  /\ UNCHANGED <<locals, src, up, handles, dataset_cache, land_mask_cache, tile_cache, hits,
                 misses, started>>

\* ------------------------------------------------------------------ dekadal and monthly series

\* Precipitation is counted in hundredths of a millimetre: a daily point holds
\* round(precip_val, 2).  A date is <<year, month, day>>.

RECURSIVE SumSeq(_)
\* np.sum(precip_values)
SumSeq(q) == IF q = << >> THEN 0 ELSE Head(q) + SumSeq(Tail(q))

\* round(float(np.mean(precip_values)), 2): the number of hundredths nearest to
\* sum / n; when sum / n lies halfway between two of them the binary
\* representation of the mean decides, which is the input half_up here
RoundedMean(sum, n, half_up) ==
  LET q == sum \div n
      r == sum % n
  IN  IF 2 * r < n THEN q
      ELSE IF 2 * r > n THEN q + 1
      ELSE IF half_up THEN q + 1 ELSE q

\* [d['precipitation'] for d in chunk]
PrecipValues(chunk) == [j \in 1 .. Len(chunk) |-> chunk[j].precipitation]

\* a window of up to eleven days: daily_series[i:i+11]
ChunkOfEleven(series, i) == SubSeq(series, i + 1, Min(i + 11, Len(series)))

\* chunk = daily_series[i:i+10], i 0-based
Chunk(series, i) == SubSeq(series, i + 1, Min(i + 10, Len(series)))

\* all_indices: the original_indices of the days of a group, those days that
\* carry them
AllIndices(days) ==
  UNION {{days[j].original_indices[i] : i \in 1 .. Len(days[j].original_indices)} :
           j \in {i \in 1 .. Len(days) : "original_indices" \in DOMAIN days[i]}}

\* min(all_indices)
MinIndex(S) == CHOOSE x \in S : \A y \in S : x <= y

\* max(all_indices)
MaxIndex(S) == CHOOSE x \in S : \A y \in S : x >= y

\* the output point of a group of days.  The days of /api/timeseries carry
\* original_indices and its points start_index and end_index; the days and
\* the points of /api/timeseries/region carry neither
SeriesPoint(days, half_up) ==
  LET entry == [date          |-> days[1].date,
                end_date      |-> days[Len(days)].date,
                days          |-> Len(days),
                precipitation |-> SumSeq(PrecipValues(days)),
                average       |-> RoundedMean(SumSeq(PrecipValues(days)), Len(days),
                                              half_up)]
  IN  IF AllIndices(days) # {}
      THEN entry @@ [start_index |-> MinIndex(AllIndices(days)),
                     end_index   |-> MaxIndex(AllIndices(days))]
      ELSE entry

\* for i in range(0, len(daily_series), 10): the point of every chunk
Dekads(series, half_up) ==
  [k \in 1 .. (Len(series) + 9) \div 10 |->
     SeriesPoint(Chunk(series, 10 * (k - 1)), half_up[k])]

\* a month key that keeps the year only: date[:4]
MonthKeyYearOnly(date) == date[1]

\* month_key = d['date'][:7], 'YYYY-MM'; as a number, ordered as the strings are
MonthKey(date) == date[1] * 100 + date[2]

\* month_data[month_key]: the days of the key, in the order of the series
MonthDays(series, key) == SelectSeq(series, LAMBDA d : MonthKey(d.date) = key)

RECURSIVE SortedSeq(_)
\* sorted(month_data.keys())
SortedSeq(S) ==
  IF S = {} THEN << >>
  ELSE LET m == CHOOSE x \in S : \A y \in S : x <= y
       IN  <<m>> \o SortedSeq(S \ {m})

\* for month_key in sorted(month_data.keys()): the point of every month
Months(series, half_up) ==
  LET keys == SortedSeq({MonthKey(series[i].date) : i \in 1 .. Len(series)})
  IN  [k \in 1 .. Len(keys) |-> SeriesPoint(MonthDays(series, keys[k]), half_up[k])]

\* the precipitation of day i of the drawn series: a start value and a slope
Starts == {0, 1, 100}

Slopes == {0, 1, 100}

\* a daily series of n days from the 25th of January 2026 on: a period whose
\* time axis runs into the next month
DailySeries(n, a, b) ==
  [i \in 1 .. n |->
     [date          |-> IF i <= 7 THEN <<2026, 1, 24 + i>> ELSE <<2026, 2, i - 7>>,
      precipitation |-> a + b * (i - 1)]]

\* the daily series of /api/timeseries: every day with the raw samples it was
\* made of, list(range(time_idx, time_idx + TIME_STEPS_PER_DAY))
WithIndices(series) ==
  [i \in 1 .. Len(series) |->
     series[i] @@ [original_indices |->
                     [j \in 1 .. TIME_STEPS_PER_DAY |->
                        (i - 1) * TIME_STEPS_PER_DAY + j - 1]]]

\* the daily series the aggregations are run on: within January, crossing into
\* February, shorter and longer than a dekad; those of /api/timeseries/region
\* and those of /api/timeseries
DrawnSeries ==
  LET region == {DailySeries(n, a, b) : n \in 0 .. MaxSeriesDays, a \in Starts, b \in Slopes}
  IN  region \cup {WithIndices(series) : series \in region}

\* the handlers are idle and a daily series has been collected
InitSeries ==
  /\ src = SourceData
  /\ up = [p \in Periods |-> TRUE]
  /\ handles = << >>
  /\ dataset_cache = << >>
  /\ land_mask_cache = << >>
  /\ zom_mask_cache = << >>
  /\ tile_cache = << >>
  /\ hits = 0
  /\ misses = 0
  /\ th = [t \in Threads |-> IdleThread]
  /\ started = 0
  /\ daily_series \in DrawnSeries
  /\ time_series = None
  /\ cached = None
  /\ binary_data = << >>
  /\ NoPeriods

server == <<src, up, handles, dataset_cache, land_mask_cache, zom_mask_cache, tile_cache,
            hits, misses, th, started>>

\* mode == '10day'
TenDay ==
  /\ time_series = None
  /\ \E half_up \in [1 .. 2 -> BOOLEAN] :
       time_series' = Some([mode |-> "10day", points |-> Dekads(daily_series, half_up)])
  /\ UNCHANGED <<server, daily_series, cached, binary_data, periods_state>>

\* mode == 'monthly'
Monthly ==
  /\ time_series = None
  /\ \E half_up \in [1 .. 2 -> BOOLEAN] :
       time_series' = Some([mode |-> "monthly", points |-> Months(daily_series, half_up)])
  /\ UNCHANGED <<server, daily_series, cached, binary_data, periods_state>>

\* ------------------------------------------------------------------ daily series

\* The daily points of the time-series handlers, computed from the Grid Source
\* as the handlers compute them.  Precipitation is counted in hundredths of a
\* millimetre; the readings of the drawn datasets are whole numbers and every
\* sample count and pixel count is at most 4, a divisor of 86400, so that the
\* means below are exact.

\* str(times[i])[:10] for the 0-based raw sample i: the time axis holds
\* TIME_STEPS_PER_DAY samples a day, from midnight of the 1st of January 2026
SampleDate(i) == <<2026, 1, 1 + (i \div TIME_STEPS_PER_DAY)>>

\* round(num / den, 2), in hundredths, for num >= 0
Round2(num, den) == (200 * num + den) \div (2 * den)

\* list(range(time_idx, min(time_idx + TIME_STEPS_PER_DAY, total_raw_times)))
IndexRange(ds, time_idx) ==
  [j \in 1 .. Min(TIME_STEPS_PER_DAY, ds.ntime - time_idx) |-> time_idx + j - 1]

\* if precip_val < -900: precip_val = 0
NoDataAsZero(precip_val) == IF precip_val < -900 THEN 0 ELSE precip_val

\* the cached path of get_timeseries: the pixel of the tile of every day
CachedPointSeries(ds, px) ==
  [d \in 1 .. TotalDays(ds) |->
     LET day_idx    == d - 1
         precip_val == DailyValues(ds, day_idx, 1)[px]
         time_idx   == day_idx * TIME_STEPS_PER_DAY
     IN  [date             |-> SampleDate(time_idx),
          day_index        |-> day_idx,
          original_indices |-> IndexRange(ds, time_idx),
          precipitation    |-> Round2(NoDataAsZero(precip_val), 1),
          num_samples      |-> TIME_STEPS_PER_DAY]]

\* download_timeseries_csv: the cached path, its points a date and a value
CsvPointSeries(ds, px) ==
  [d \in 1 .. TotalDays(ds) |->
     LET day_idx    == d - 1
         precip_val == DailyValues(ds, day_idx, 1)[px]
     IN  [date          |-> SampleDate(day_idx * TIME_STEPS_PER_DAY),
          precipitation |-> Round2(NoDataAsZero(precip_val), 1)]]

\* the direct path, per raw sample:
\*   if precip_val < -1e30 or precip_val > 1e30 or precip_val < 0: precip_val = 0
\*   else: precip_val = precip_val * 86400
\* every comparison with a reading that is not a number is False
DirectValue(v) ==
  IF v = NaN THEN NaN
  ELSE IF v < -FillBound \/ v > FillBound \/ v < 0 THEN 0
  ELSE v * SECONDS_PER_DAY

\* round(np.mean(values), 2): not a number when one of the values is not
MeanOfValues(values) ==
  IF \E j \in 1 .. Len(values) : values[j] = NaN THEN NaN
  ELSE Round2(SumSeq(values), Len(values))

\* sorted(date_values.keys()): the dates of the raw samples, one per started day
SortedDates(ds) ==
  [k \in 1 .. (ds.ntime + TIME_STEPS_PER_DAY - 1) \div TIME_STEPS_PER_DAY |->
     SampleDate((k - 1) * TIME_STEPS_PER_DAY)]

\* date_indices[date_str]: the raw samples of the k-th date, in order
DateIndices(ds, k) == IndexRange(ds, (k - 1) * TIME_STEPS_PER_DAY)

\* the direct path of get_timeseries: the samples of every date averaged
DirectPointSeries(ds, px) ==
  [k \in 1 .. Len(SortedDates(ds)) |->
     LET indices == DateIndices(ds, k)
         values  == [j \in 1 .. Len(indices) |-> DirectValue(ds.pr[indices[j] + 1][px])]
     IN  [date             |-> SortedDates(ds)[k],
          day_index        |-> k - 1,
          original_indices |-> indices,
          precipitation    |-> MeanOfValues(values),
          num_samples      |-> Len(values)]]

\* valid_mask = (values_grid > -900) & region_mask; the mean of the tile over
\* it, 0 when it is empty
RegionalAvgOfTile(values_grid, region_mask) ==
  LET valid_mask == {px \in DOMAIN values_grid : values_grid[px] > -900 /\ region_mask[px]}
  IN  IF valid_mask # {}
      THEN Round2(SumSet(values_grid, valid_mask), Cardinality(valid_mask))
      ELSE 0

\* the cached path of get_region_timeseries
CachedRegionSeries(ds, region_mask) ==
  [d \in 1 .. TotalDays(ds) |->
     [date          |-> SampleDate((d - 1) * TIME_STEPS_PER_DAY),
      day_index     |-> d - 1,
      precipitation |-> RegionalAvgOfTile(DailyValues(ds, d - 1, 1), region_mask),
      num_samples   |-> TIME_STEPS_PER_DAY]]

\* download_region_timeseries_csv: the cached path, a date and a value
CsvRegionSeries(ds, region_mask) ==
  [d \in 1 .. TotalDays(ds) |->
     [date          |-> SampleDate((d - 1) * TIME_STEPS_PER_DAY),
      precipitation |-> RegionalAvgOfTile(DailyValues(ds, d - 1, 1), region_mask)]]

\* the direct path, per raw sample: the mean of the slice over
\* region_mask & valid_mask, times 86400; 0 when that mask is empty
RegionalAvgOfSlice(ds, i, region_mask) ==
  LET pr_slice      == ReadSlice(ds, i, 1)
      combined_mask == {px \in DOMAIN pr_slice : region_mask[px] /\ IsValid(pr_slice[px])}
  IN  IF combined_mask # {}
      THEN (SumSet(pr_slice, combined_mask) * SECONDS_PER_DAY) \div Cardinality(combined_mask)
      ELSE 0

\* the direct path of get_region_timeseries: the regional means of the samples
\* of every date averaged
DirectRegionSeries(ds, region_mask) ==
  [k \in 1 .. Len(SortedDates(ds)) |->
     LET indices == DateIndices(ds, k)
         values  == [j \in 1 .. Len(indices) |->
                       RegionalAvgOfSlice(ds, indices[j], region_mask)]
     IN  [date          |-> SortedDates(ds)[k],
          day_index     |-> k - 1,
          precipitation |-> MeanOfValues(values),
          num_samples   |-> Len(values)]]

\* the readings of the datasets the daily series are computed from
DayReadings == {FillPos, -1, 0, 1, NaN}

\* the raw sample counts: whole days, and whole days with a leftover sample
DailyLengths ==
  {d * TIME_STEPS_PER_DAY + r : d \in 1 .. MaxDailyDays, r \in 0 .. 1}

\* the series of pixel (1,2) next to that of pixel (1,1): the same readings,
\* the reading 3 throughout, or 3 in the first sample of a day and fill after
Neighbours == {"same", "steady", "once"}

\* a dataset on the 1 x 2 grid whose pixel (1,1) repeats the samples of day0
DailySource(day0, neighbour, ntime) ==
  [nlat |-> 1, nlon |-> 2, ntime |-> ntime, hasPr |-> TRUE,
   pr |-> [t \in 1 .. ntime |->
             LET j == ((t - 1) % TIME_STEPS_PER_DAY) + 1
             IN  (<<1, 1>> :> day0[j])
                 @@ (<<1, 2>> :> (IF neighbour = "same" THEN day0[j]
                                  ELSE IF neighbour = "steady" \/ j = 1 THEN 3
                                  ELSE FillPos))]]

DailySources ==
  {[p \in Periods |->
      IF p = REFERENCE_PERIOD THEN SourceData[p] ELSE DailySource(day0, neighbour, ntime)] :
     day0 \in [1 .. TIME_STEPS_PER_DAY -> DayReadings], neighbour \in Neighbours,
     ntime \in DailyLengths}

\* the regions of these requests: pixel (1,1), pixel (1,2), both, and none
DailyRegions ==
  {[name |-> "Z", poly |-> Rect(0, 0, 2, 2)],
   [name |-> "Z", poly |-> Rect(1, 0, 3, 2)],
   [name |-> "Z", poly |-> Rect(0, 0, 3, 2)],
   [name |-> "Z", poly |-> EmptyPolygon]}

Daily == [conc |-> FALSE, limit |-> 1, periods |-> Periods \ {REFERENCE_PERIOD},
          days |-> Days, regions |-> DailyRegions]

InitDaily ==
  /\ src \in DailySources
  /\ up = [p \in Periods |-> TRUE]
  /\ handles = << >>
  /\ dataset_cache = << >>
  /\ land_mask_cache = << >>
  /\ zom_mask_cache = << >>
  /\ tile_cache = << >>
  /\ hits = 0
  /\ misses = 0
  /\ th = [t \in Threads |-> IdleThread]
  /\ started = 0
  /\ NoLocals

\* GET /api/timeseries, mode 'day': lat_idx and lon_idx of the nearest grid
\* point, the path the latency of the last tile selects, the daily series
PointSeries(t) ==
  /\ MayStart(t, Daily)
  /\ \E p \in Daily.periods, use_cache \in BOOLEAN :
       \E px \in SubPixels(src[p], 1) :
         /\ Set(t, Done([IdleThread EXCEPT !.op = "ts", !.key = <<p, 0, 1, FALSE>>,
                                           !.lat_idx = px[1], !.lon_idx = px[2],
                                           !.use_cache = use_cache], "ok", None))
         /\ daily_series' = IF use_cache THEN CachedPointSeries(src[p], px)
                            ELSE DirectPointSeries(src[p], px)
  /\ started' = started + 1
  /\ UNCHANGED <<src, up, handles, dataset_cache, land_mask_cache, zom_mask_cache,
                 tile_cache, hits, misses, time_series, cached, binary_data,
                 periods_state>>

\* GET /api/timeseries/csv, mode 'day'
CsvSeries(t) ==
  /\ MayStart(t, Daily)
  /\ \E p \in Daily.periods :
       \E px \in SubPixels(src[p], 1) :
         /\ Set(t, Done([IdleThread EXCEPT !.op = "csv", !.key = <<p, 0, 1, FALSE>>,
                                           !.lat_idx = px[1], !.lon_idx = px[2],
                                           !.use_cache = TRUE], "ok", None))
         /\ daily_series' = CsvPointSeries(src[p], px)
  /\ started' = started + 1
  /\ UNCHANGED <<src, up, handles, dataset_cache, land_mask_cache, zom_mask_cache,
                 tile_cache, hits, misses, time_series, cached, binary_data,
                 periods_state>>

\* POST /api/timeseries/region (op "rts") and /api/timeseries/region/csv (op
\* "rcsv"), mode 'day': the region mask of the polygon, 400 when the mask of
\* the time series has no point, the daily series
RegionSeries(t) ==
  /\ MayStart(t, Daily)
  /\ \E p \in Daily.periods, zom \in Daily.regions, op \in {"rts", "rcsv"},
        use_cache \in BOOLEAN :
       LET region_mask == RegionMask(zom, src[p], 1)
           r == [IdleThread EXCEPT !.op = op, !.key = <<p, 0, 1, FALSE>>,
                                   !.zom = Some(zom), !.use_cache = use_cache]
       IN  /\ op = "rcsv" => use_cache
           /\ zom_mask_cache' =
                Put(zom_mask_cache, ZomKey(zom.name, src[p].nlat, src[p].nlon, ""),
                    region_mask)
           /\ IF op = "rts" /\ \A px \in DOMAIN region_mask : ~region_mask[px]
              THEN /\ Set(t, Done(r, "invalid", None))
                   /\ daily_series' = daily_series
              ELSE /\ Set(t, Done(r, "ok", None))
                   /\ daily_series' =
                        IF op = "rcsv" THEN CsvRegionSeries(src[p], region_mask)
                        ELSE IF use_cache THEN CachedRegionSeries(src[p], region_mask)
                        ELSE DirectRegionSeries(src[p], region_mask)
  /\ started' = started + 1
  /\ UNCHANGED <<src, up, handles, dataset_cache, land_mask_cache, tile_cache, hits,
                 misses, time_series, cached, binary_data, periods_state>>

\* ------------------------------------------------------------------ binary responses

\* Numbers on the wire.  A float64 holds every number of the model.  A float32
\* holds the whole numbers up to Float32Exact in size and, beyond, the even
\* ones only (as the real float32 does from 2^24 on).

Float32Exact == 1000

Abs(x) == IF x < 0 THEN -x ELSE x

\* conversion to float32: round to the nearest float32, ties to the even one
ToFloat32(x) ==
  IF Abs(x) <= Float32Exact \/ x % 2 = 0 THEN x
  ELSE IF ((x - 1) \div 2) % 2 = 0 THEN x - 1 ELSE x + 1

\* the 4 bytes of a little-endian signed 32-bit integer (two's complement)
Int32Bytes(x) ==
  <<x % 256, (x \div 256) % 256, (x \div 65536) % 256, (x \div 16777216) % 256>>

\* the 4 bytes of a float32: the number is converted, then laid out as its code
Float32Bytes(x) == Int32Bytes(ToFloat32(x))

\* the 8 bytes of a float64
Float64Bytes(x) ==
  Int32Bytes(x) \o (IF x < 0 THEN <<255, 255, 255, 255>> ELSE <<0, 0, 0, 0>>)

RECURSIVE Concat(_)
\* b''.join(parts)
Concat(parts) == IF parts = << >> THEN << >> ELSE Head(parts) \o Concat(Tail(parts))

\* array.tobytes(): every element in the item size of the array's dtype
ToBytes(array) ==
  Concat([i \in 1 .. Len(array.data) |->
            IF array.dtype = "float64" THEN Float64Bytes(array.data[i])
            ELSE Float32Bytes(array.data[i])])

\* array.astype(np.float32)
AsFloat32(data) == [dtype |-> "float32", data |-> [i \in 1 .. Len(data) |-> ToFloat32(data[i])]]

\* np.linspace(first, last, n) of an evenly spaced axis: the points themselves
Linspace(axis) == axis.data

\* if len(lats) > 1: lats = np.linspace(lats[0], lats[-1], len(lats)).astype(np.float32);
\* an axis of one point is left as the dataset holds it
Coords(axis) == IF Len(axis.data) > 1 THEN AsFloat32(Linspace(axis)) ELSE axis

\* the value grid flattened in row-major order
RowMajor(values, nlat, nlon) ==
  [i \in 1 .. nlat * nlon |-> values[<<((i - 1) \div nlon) + 1, ((i - 1) % nlon) + 1>>]]

\* statistics over every pixel, the sentinel pixels included
StatsOverAllPixels(values) ==
  LET vv == {values[p] : p \in DOMAIN values}
  IN  <<0, 100, ToFloat32(SumSet(values, DOMAIN values) \div Cardinality(DOMAIN values)),
        CHOOSE x \in vv : \A y \in vv : x <= y,
        CHOOSE x \in vv : \A y \in vv : x >= y>>

\* valid_values = values[values != -999]; stats = (0.0, 100.0, mean, min, max),
\* all 0 when there is no valid value.  The drawn grids have whole means.
Stats(values) ==
  LET valid == {p \in DOMAIN values : values[p] # SENTINEL}
      vv    == {values[p] : p \in valid}
  IN  IF valid = {} THEN <<0, 100, 0, 0, 0>>
      ELSE <<0, 100, ToFloat32(SumSet(values, valid) \div Cardinality(valid)),
             CHOOSE x \in vv : \A y \in vv : x <= y,
             CHOOSE x \in vv : \A y \in vv : x >= y>>

\* the dict get_cached_precip_data returns, with its coordinate arrays, bounds
\* and statistics, for a grid given by its two axes and its float32 values
FullTile(lat, lon, values, total_days) ==
  [lats       |-> Coords(lat),
   lons       |-> Coords(lon),
   values     |-> values,
   bounds     |-> <<lat.data[1], lat.data[Len(lat.data)], lon.data[1], lon.data[Len(lon.data)]>>,
   stats      |-> Stats(values),
   total_days |-> total_days]

\* header = struct.pack('<4i9f', lat_count, lon_count, time_index, total_days,
\*                      bounds[0..3], stats[0..4])
Header(tile, time_index) ==
  Concat(<<Int32Bytes(Len(tile.lats.data)), Int32Bytes(Len(tile.lons.data)),
           Int32Bytes(time_index), Int32Bytes(tile.total_days)>>
         \o [i \in 1 .. 4 |-> Float32Bytes(tile.bounds[i])]
         \o [i \in 1 .. 5 |-> Float32Bytes(tile.stats[i])])

\* binary_data = header + lat_bytes + lon_bytes + values_bytes
Packed(tile, time_index) ==
  Header(tile, time_index)
  \o ToBytes(tile.lats)
  \o ToBytes(tile.lons)
  \o ToBytes([dtype |-> "float32",
              data  |-> RowMajor(tile.values, Len(tile.lats.data), Len(tile.lons.data))])

\* an axis of n points from first on, ten apart, in the dtype of the dataset
Axis(dtype, first, n) == [dtype |-> dtype, data |-> [i \in 1 .. n |-> first + 10 * (i - 1)]]

\* the axes a dataset may have: float32 coordinates, float64 coordinates that
\* float32 holds too, and float64 coordinates that float32 does not hold
DrawnAxes(maxn) ==
  {Axis(d[1], d[2], n) :
     d \in {<<"float32", 100>>, <<"float64", 100>>, <<"float64", 1001>>}, n \in 1 .. maxn}

\* the value grids: a ramp, a grid with a sentinel pixel, a grid of sentinels
DrawnGrids(nlat, nlon) ==
  LET P == (1 .. nlat) \X (1 .. nlon)
  IN  {[p \in P |-> 2 * (p[1] * nlon + p[2])],
       [p \in P |-> IF p = <<1, 1>> THEN SENTINEL ELSE 6],
       [p \in P |-> SENTINEL]}

\* the pairs of axes of one dataset: both in the dtype of its coordinates
DrawnAxisPairs ==
  {ll \in DrawnAxes(MaxLatCount) \X DrawnAxes(2) :
     ll[1].dtype = ll[2].dtype /\ ll[2].data[1] = 100}

\* the tiles a binary endpoint may have to pack, with the index of the request
DrawnTiles ==
  {[tile       |-> FullTile(ll[1], ll[2], v, 2),
    time_index |-> i] :
     ll \in DrawnAxisPairs,
     v \in UNION {DrawnGrids(a, b) : a \in 1 .. MaxLatCount, b \in 1 .. 2},
     i \in 0 .. 1}

\* the tiles whose value grid has the shape of the axes
WellShaped(c) ==
  DOMAIN c.tile.values = (1 .. Len(c.tile.lats.data)) \X (1 .. Len(c.tile.lons.data))

\* a binary endpoint holds the tile it is about to pack
InitCodec ==
  /\ src = SourceData
  /\ up = [p \in Periods |-> TRUE]
  /\ handles = << >>
  /\ dataset_cache = << >>
  /\ land_mask_cache = << >>
  /\ zom_mask_cache = << >>
  /\ tile_cache = << >>
  /\ hits = 0
  /\ misses = 0
  /\ th = [t \in Threads |-> IdleThread]
  /\ started = 0
  /\ daily_series = << >>
  /\ time_series = None
  /\ cached \in {Some(c) : c \in {d \in DrawnTiles : WellShaped(d)}}
  /\ binary_data = << >>
  /\ NoPeriods

\* the packing of get_precipitation_binary and of the aggregated endpoint
Pack ==
  /\ binary_data = << >>
  /\ binary_data' = Packed(cached[1].tile, cached[1].time_index)
  /\ UNCHANGED <<server, daily_series, time_series, cached, periods_state>>

\* ------------------------------------------------------------------ get_available_periods

\* PERIODS_CACHE_TTL, in hours
PERIODS_CACHE_TTL == 1

\* int(FIRST_DYNAMIC_PERIOD[:4]), int(FIRST_DYNAMIC_PERIOD[4:6])
FIRST_DYNAMIC_PERIOD == <<2026, 3>>

\* KNOWN_PERIODS in the order of the list
KnownList == <<"202508", "202601">>

\* f"{year}{month:02d}"
PeriodName(year, month) ==
  ToString(year) \o (IF month < 10 THEN "0" ELSE "") \o ToString(month)

RECURSIVE CandidateNoRollover(_)
\* candidates whose month runs on after 12
CandidateNoRollover(i) ==
  IF i = 0 THEN FIRST_DYNAMIC_PERIOD
  ELSE <<CandidateNoRollover(i - 1)[1], CandidateNoRollover(i - 1)[2] + 1>>

RECURSIVE Candidate(_)
\* (year, month) of the candidate of round i of the loop: month += 1;
\* if month > 12: month = 1, year += 1
Candidate(i) ==
  IF i = 0 THEN FIRST_DYNAMIC_PERIOD
  ELSE LET year  == Candidate(i - 1)[1]
           month == Candidate(i - 1)[2] + 1
       IN  IF month > 12 THEN <<year + 1, 1>> ELSE <<year, month>>

RECURSIVE Probe(_, _)
\* the while loop from round i on: the periods it tries to open, in order; it
\* ends with the first one that does not open
Probe(i, files) ==
  LET period == PeriodName(Candidate(i)[1], Candidate(i)[2])
  IN  IF period \in files THEN <<period>> \o Probe(i + 1, files) ELSE <<period>>

\* the files the server may hold after the known ones: the first n candidates
\* for some n, or the first and the third without the second
FileSets ==
  {{PeriodName(Candidate(i)[1], Candidate(i)[2]) : i \in I} :
     I \in {0 .. (n - 1) : n \in {0, 1, 2, MaxCandidates - 1, MaxCandidates}} \cup {{0, 2}}}

\* a fresh process, the server holding any of the file sets
InitPeriods ==
  /\ src = SourceData
  /\ up = [p \in Periods |-> TRUE]
  /\ handles = << >>
  /\ dataset_cache = << >>
  /\ land_mask_cache = << >>
  /\ zom_mask_cache = << >>
  /\ tile_cache = << >>
  /\ hits = 0
  /\ misses = 0
  /\ th = [t \in Threads |-> IdleThread]
  /\ started = 0
  /\ daily_series = << >>
  /\ time_series = None
  /\ cached = None
  /\ binary_data = << >>
  /\ available_periods_cache = None
  /\ available_periods_cache_time = 0
  /\ current_time \in 1 .. 2
  /\ present \in FileSets
  /\ force_refresh = FALSE
  /\ probed = << >>
  /\ available = None

untouched == <<src, up, handles, dataset_cache, land_mask_cache, zom_mask_cache, tile_cache,
               hits, misses, th, daily_series, time_series, cached, binary_data>>

\* get_available_periods(force_refresh): the stored list while it is fresh,
\* else KNOWN_PERIODS and the candidates that open, stored with the time.  The
\* handles of the probes are closed at once; probed keeps their periods.
GetAvailablePeriods ==
  /\ started < MaxPeriodCalls
  /\ started' = started + 1
  /\ \E force \in BOOLEAN :
       /\ force_refresh' = force
       /\ IF /\ ~force
             /\ available_periods_cache # None
             /\ available_periods_cache[1] # << >>
             /\ current_time - available_periods_cache_time < PERIODS_CACHE_TTL
          THEN /\ probed' = << >>
               /\ available' = available_periods_cache
               /\ UNCHANGED <<available_periods_cache, available_periods_cache_time>>
          ELSE /\ probed' = Probe(0, present)
               /\ available_periods_cache' =
                    Some(KnownList \o SubSeq(probed', 1, Len(probed') - 1))
               /\ available_periods_cache_time' = current_time
               /\ available' = available_periods_cache'
  /\ UNCHANGED <<untouched, current_time, present>>

\* an hour passes
Tick ==
  /\ current_time < MaxTime
  /\ current_time' = current_time + 1
  /\ UNCHANGED <<untouched, started, available_periods_cache, available_periods_cache_time,
                 present, force_refresh, probed, available>>

\* a file appears on the server, or a file stops opening
FilesChange ==
  /\ present' \in FileSets \ {present}
  /\ UNCHANGED <<untouched, started, available_periods_cache, available_periods_cache_time,
                 current_time, force_refresh, probed, available>>

\* ------------------------------------------------------------------ specifications

TileCall(t) ==
  Lookup(t) \/ DsCheck(t) \/ DsOpen(t) \/ Read(t) \/ LmCheck(t) \/ LmLoad(t) \/ Insert(t)

Handler(t) ==
  \/ TileRespond(t)
  \/ PrefetchBegin(t) \/ PrefetchAfter(t)
  \/ ClearLru(t) \/ ClearDs(t) \/ ClearLm(t)
  \/ AggSum(t) \/ AggCount(t) \/ AggRespond(t)
  \/ TsBegin(t) \/ TsChecked(t) \/ TsCached(t) \/ TsDirect(t)
  \/ Return(t)

Request(t, mode) ==
  \/ TileRequest(t, mode) \/ PrefetchRequest(t, mode) \/ ClearRequest(t, mode)
  \/ AggRequest(t, mode) \/ TsRequest(t, mode)

\* the threaded server: requests run concurrently
Next == \E t \in Threads : Request(t, Concurrent) \/ TileCall(t) \/ Handler(t)

Spec == Init /\ [][Next]_vars

\* one request at a time
NextSeq == \E t \in Threads : Request(t, Sequential) \/ TileCall(t) \/ Handler(t)

SpecSeq == Init /\ [][NextSeq]_vars

\* one tile or aggregation request on a drawn Grid Source
NextData ==
  \E t \in Threads :
    \/ TileRequest(t, Single) \/ AggRequest(t, Single)
    \/ TileCall(t)
    \/ TileRespond(t) \/ AggSum(t) \/ AggCount(t) \/ AggRespond(t) \/ Return(t)

SpecData == InitData /\ [][NextData]_vars

\* the remote file of a period becomes unreachable, or reachable again, between
\* two requests
SourceFlips ==
  /\ \A t \in Threads : th[t].op = "idle"
  /\ \E p \in Periods : up' = [up EXCEPT ![p] = ~up[p]]
  /\ UNCHANGED <<locals, src, handles, dataset_cache, land_mask_cache, zom_mask_cache, tile_cache,
                 hits, misses, th, started>>

\* the handlers of the other data endpoints
OtherRequest(t, mode) ==
  \/ TimesRequest(t, mode) \/ JsonRequest(t, mode) \/ CsvRequest(t, mode)
  \/ RegionCsvRequest(t, mode) \/ RegionTsRequest(t, mode) \/ RegionAvgRequest(t, mode)

OtherHandler(t) ==
  \/ TimesOpen(t) \/ JsonOpen(t) \/ JsonRespond(t)
  \/ CsvBegin(t) \/ CsvLoop(t) \/ RegionTsBegin(t) \/ RegionAvgRespond(t)

\* requests of every endpoint for any period and day, one at a time, on a Grid
\* Source that fails
NextFaulty ==
  \/ SourceFlips
  \/ \E t \in Threads :
       \/ Request(t, Faulty) \/ OtherRequest(t, Faulty)
       \/ TileCall(t) \/ Handler(t) \/ OtherHandler(t)

SpecFaulty == InitFaulty /\ [][NextFaulty]_vars

\* calls of get_land_mask for either factor, masked and unmasked tile
\* requests and clears, one at a time, on a drawn reference slice
NextMask ==
  \E t \in Threads :
    \/ LandMaskCall(t, Masked) \/ TileRequest(t, Masked) \/ ClearRequest(t, Masked)
    \/ TileCall(t) \/ LandMaskReturn(t) \/ TileRespond(t)
    \/ ClearLru(t) \/ ClearDs(t) \/ ClearLm(t) \/ Return(t)

SpecMask == InitMask /\ [][NextMask]_vars

\* region requests for either period and any drawn region, one at a time
NextRegion ==
  \E t \in Threads :
    \/ RegionTsRequest(t, Regional) \/ RegionCsvRequest(t, Regional)
    \/ RegionAvgRequest(t, Regional)
    \/ Lookup(t) \/ DsCheck(t) \/ DsOpen(t) \/ Read(t) \/ Insert(t)
    \/ CsvBegin(t) \/ CsvLoop(t) \/ RegionTsBegin(t)
    \/ TsChecked(t) \/ TsCached(t) \/ TsDirect(t)
    \/ RegionAvgRespond(t) \/ Return(t)

SpecRegion == InitRegion /\ [][NextRegion]_vars

\* calls of get_available_periods while time passes and the files of the
\* server change
NextPeriods == GetAvailablePeriods \/ Tick \/ FilesChange

SpecPeriods == InitPeriods /\ [][NextPeriods]_vars

\* the aggregation of a collected daily series into dekads or months
NextSeries == TenDay \/ Monthly

SpecSeries == InitSeries /\ [][NextSeries]_vars

\* the daily series of one time-series request
NextDaily == \E t \in Threads : PointSeries(t) \/ CsvSeries(t) \/ RegionSeries(t)

SpecDaily == InitDaily /\ [][NextDaily]_vars

\* the packing of a tile into the binary response
NextCodec == Pack

SpecCodec == InitCodec /\ [][NextCodec]_vars

\* ------------------------------------------------------------------ claims

\* thread t takes a step
Steps(t) == th'[t] # th[t]

\* thread t has read the time slices of its key and not yet returned
Computing(t) ==
  th[t].ctx = "tile" /\ th[t].pc \in {"lm_check", "lm_load", "insert"}

\* C1: single-flight. Of the concurrent calls of get_cached_precip_data with
\* one key, at most one computes the tile (reads the slices of the day): never
\* are two threads past the slice reads of the same key at once.
C1_SingleFlight ==
  \A t, u \in Threads :
    (t # u /\ Computing(t) /\ Computing(u)) => th[t].key # th[u].key

\* C2: a second call with a key the cache holds is a hit. The miss returns the
\* tile it stores, a stored tile never changes while its key stays, and a call
\* that finds its key returns the stored tile, counts one hit and no miss, and
\* goes straight to its return: no open and none of the body's slice reads.
C2_SecondCallIsHit ==
  [][ /\ \A k \in CacheKeys(tile_cache) \cap CacheKeys(tile_cache') :
           CacheTile(tile_cache', k) = CacheTile(tile_cache, k)
      /\ \A t \in Threads :
           /\ (th[t].pc = "insert" /\ Steps(t)
               /\ th[t].key \notin CacheKeys(tile_cache))
              => /\ th[t].key \in CacheKeys(tile_cache')
                 /\ th'[t].result = Some(CacheTile(tile_cache', th[t].key))
           /\ (th[t].pc = "lookup" /\ Steps(t)
               /\ th[t].key \in CacheKeys(tile_cache))
              => /\ th'[t].pc = "ret"
                 /\ th'[t].result = Some(CacheTile(tile_cache, th[t].key))
                 /\ th'[t].hit
                 /\ hits' = hits + 1
                 /\ misses' = misses
                 /\ handles' = handles
                 /\ dataset_cache' = dataset_cache ]_vars

\* C2 witness: a call has returned as a hit
C2_Witness == \E t \in Threads : th[t].pc = "ret" /\ th[t].hit /\ hits > 0

\* the valid samples of a pixel on a day
ValidSamples(ds, day, s, p) ==
  {t \in DayIndices(ds, day) : IsValid(ReadSlice(ds, t, s)[p])}

\* the value of pixel p of a cached tile is the sentinel when no sample of the
\* day is valid, else the sum of the valid samples x 86400 over their number
PixelIsValidAverage(e, p) ==
  LET ds == src[e.key[1]]
      V  == ValidSamples(ds, e.key[2], e.key[3], p)
  IN  IF V = {} THEN e.tile.values[p] = SENTINEL
      ELSE e.tile.values[p] * Cardinality(V)
             = SumSet([t \in V |-> ReadSlice(ds, t, e.key[3])[p]], V) * SECONDS_PER_DAY

\* C3 as stated: every pixel of every daily tile is the sentinel or the average
\* of its valid samples, as its samples say.
C3_EveryTile ==
  \A i \in 1 .. Len(tile_cache) : \A p \in DOMAIN tile_cache[i].tile.values :
    PixelIsValidAverage(tile_cache[i], p)

\* C3 amended: every pixel of every daily tile is the sentinel (no valid sample)
\* or the average of its valid samples, except a pixel of a tile requested with
\* apply_mask that is not land in the reference land mask: that one is the
\* sentinel whatever its samples.
C3_ValidSampleAverage ==
  \A i \in 1 .. Len(tile_cache) : \A p \in DOMAIN tile_cache[i].tile.values :
    \/ PixelIsValidAverage(tile_cache[i], p)
    \/ /\ tile_cache[i].key[4]
       /\ ~LandMaskOf(src[REFERENCE_PERIOD], tile_cache[i].key[3])[p]
       /\ tile_cache[i].tile.values[p] = SENTINEL

\* C3 witness: a tile with a pixel that has both valid and fill samples and a
\* positive average
C3_Witness ==
  \E i \in 1 .. Len(tile_cache) : \E p \in DOMAIN tile_cache[i].tile.values :
    LET k == tile_cache[i].key
        n == Cardinality(ValidSamples(src[k[1]], k[2], k[3], p))
    IN  0 < n /\ n < TIME_STEPS_PER_DAY /\ tile_cache[i].tile.values[p] > 0

\* thread t has the response of an aggregation
Aggregated(t) == th[t].op = "agg" /\ th[t].pc = "done" /\ th[t].status = "ok"

\* the days of the aggregation of t on which pixel p is not the sentinel
PresentDays(t, p) == {i \in 1 .. Len(th[t].used) : th[t].used[i][p] # SENTINEL}

\* C4: the aggregated grid holds, per pixel, the average of the daily tile
\* values over the days of the range on which the pixel is not the sentinel.
C4_AggregateIsAverage ==
  \A t \in Threads : Aggregated(t) =>
    \A p \in DOMAIN th[t].out[1] :
      PresentDays(t, p) # {} =>
        th[t].out[1][p] * Cardinality(PresentDays(t, p))
          = SumSet([i \in PresentDays(t, p) |-> th[t].used[i][p]], PresentDays(t, p))

\* C5: a pixel that is the sentinel on every day of the range is the sentinel
\* in the aggregated grid.
C5_AllSentinelStaysSentinel ==
  \A t \in Threads : Aggregated(t) =>
    \A p \in DOMAIN th[t].out[1] :
      PresentDays(t, p) = {} => th[t].out[1][p] = SENTINEL

\* C6: if the tile of the last day of a period (subsample 1, unmasked) is in
\* the cache, so are the tiles of all its days.
C6_LastDayMeansWarm ==
  \A p \in Periods :
    <<p, TotalDays(src[p]) - 1, 1, FALSE>> \in CacheKeys(tile_cache)
      => \A d \in 0 .. TotalDays(src[p]) - 1 :
           <<p, d, 1, FALSE>> \in CacheKeys(tile_cache)

\* the open handles get_dataset obtained for period p
OpenHandles(p) ==
  {i \in 1 .. Len(handles) :
     handles[i].period = p /\ handles[i].by = "get_dataset" /\ ~handles[i].closed}

\* C7: in a sequential run get_dataset opens a period only when the map does
\* not hold it, a call returns the handle the map holds, and an entry leaves
\* the map (or changes) only by clear_cache. So every open handle of
\* get_dataset is the one the map holds for its period.
C7_SequentialConnections ==
  /\ [](/\ \A p \in Periods :
             OpenHandles(p) = IF p \in DOMAIN dataset_cache
                              THEN {dataset_cache[p]} ELSE {}
        /\ \A t \in Threads :
             (th[t].pc = "read" \/ (th[t].pc = "ret_ds" /\ ~th[t].failed))
               => /\ th[t].key[1] \in DOMAIN dataset_cache
                  /\ th[t].ds = dataset_cache[th[t].key[1]])
  /\ [][ /\ \A p \in DOMAIN dataset_cache :
              \/ p \in DOMAIN dataset_cache' /\ dataset_cache'[p] = dataset_cache[p]
              \/ dataset_cache' = << >> /\ \E t \in Threads : th[t].pc = "clear_ds"
         /\ \A t \in Threads :
              (th[t].pc = "ds_check" /\ Steps(t)
               /\ th[t].key[1] \in DOMAIN dataset_cache)
                => /\ handles' = handles
                   /\ th'[t].ds = dataset_cache[th[t].key[1]] ]_vars

\* C7 witness: a call of get_dataset has returned the stored handle of an
\* earlier call without opening
C7_Witness ==
  \E t \in Threads :
    /\ th[t].pc \in {"read", "ret_ds"}
    /\ ~th[t].failed
    /\ ~th[t].opened
    /\ th[t].key[1] \in DOMAIN dataset_cache
    /\ th[t].ds = dataset_cache[th[t].key[1]]

\* C8: concurrent first calls of get_dataset for one period perform at most
\* one open, and all end up with the same handle: there is never more than
\* one open handle of a period.
C8_OneOpenPerPeriod == \A p \in Periods : Cardinality(OpenHandles(p)) <= 1

\* C9: when clear_cache has returned, the hit and miss counters are 0, the
\* tile cache and the connection map are empty and every handle get_dataset
\* had obtained is closed; a tile request after it reads from a handle that
\* is open, one it had to open anew.
C9_ClearResets ==
  /\ \A t \in Threads :
       (th[t].op = "clear" /\ th[t].pc = "done")
         => /\ hits = 0
            /\ misses = 0
            /\ tile_cache = << >>
            /\ dataset_cache = << >>
            /\ \A i \in 1 .. Len(handles) :
                 handles[i].by = "get_dataset" => handles[i].closed
  /\ \A t \in Threads :
       th[t].pc = "read"
         => /\ ~handles[th[t].ds].closed
            /\ \A i \in 1 .. Len(handles) :
                 (handles[i].closed /\ handles[i].by = "get_dataset") => i < th[t].ds

\* C9 witness: clear_cache has returned after closing a handle
C9_Witness ==
  \E t \in Threads :
    /\ th[t].op = "clear"
    /\ th[t].pc = "done"
    /\ \E i \in 1 .. Len(handles) : handles[i].by = "get_dataset" /\ handles[i].closed

\* C10: the tile cache never holds more than maxsize entries; an entry leaves
\* it only by a clear or by the insertion of a miss into a full cache, which
\* removes exactly one entry, the one whose last access is the oldest.
C10_BoundedLru ==
  /\ [](Len(tile_cache) <= maxsize)
  /\ [][ LET lost == CacheKeys(tile_cache) \ CacheKeys(tile_cache')
         IN  lost # {} =>
               \/ tile_cache' = << >> /\ \E t \in Threads : th[t].pc = "clear_lru"
               \/ /\ Len(tile_cache) = maxsize
                  /\ Len(tile_cache') = maxsize
                  /\ Cardinality(lost) = 1
                  /\ \E t \in Threads :
                       /\ th[t].pc = "insert"
                       /\ Steps(t)
                       /\ th[t].key \in CacheKeys(tile_cache')
                  /\ \A k \in lost : \A i \in 1 .. Len(tile_cache) :
                       tile_cache[i].key # k
                         => tile_cache[i].at > tile_cache[CacheIndex(tile_cache, k)].at
       ]_vars

\* C10 witness: an insertion has evicted an entry of the full cache
C10_Witness ==
  \E t \in Threads : th[t].evicted # {} /\ Len(tile_cache) = maxsize

\* thread t is inside a call of get_cached_precip_data
InTileCall(t) ==
  th[t].ctx = "tile"
  /\ th[t].pc \in {"lookup", "ds_check", "ds_open", "read", "lm_check", "lm_load", "insert"}

\* C11: a computation that fails is never stored. The step in which a call of
\* get_cached_precip_data fails leaves the tile cache as it was and without the
\* key; a failing open of get_dataset leaves the connection map as it was and
\* without the period; a failing load of get_land_mask leaves the land-mask map
\* as it was and without the subsample; and a call whose key the tile cache
\* does not hold is a miss that runs the body again.
C11_FailureNotStored ==
  /\ [](\A t \in Threads :
          (th[t].ctx = "tile" /\ th[t].pc = "ret" /\ th[t].failed)
            => th[t].key \notin CacheKeys(tile_cache))
  /\ [][\A t \in Threads :
          /\ (InTileCall(t) /\ Steps(t) /\ th'[t].failed)
               => /\ tile_cache' = tile_cache
                  /\ th[t].key \notin CacheKeys(tile_cache')
                  /\ th'[t].result = None
          /\ (th[t].pc = "ds_open" /\ Steps(t) /\ th'[t].failed)
               => /\ dataset_cache' = dataset_cache
                  /\ th[t].key[1] \notin DOMAIN dataset_cache'
          /\ (th[t].pc = "lm_load" /\ Steps(t) /\ th'[t].lm = None)
               => /\ land_mask_cache' = land_mask_cache
                  /\ th[t].key[3] \notin DOMAIN land_mask_cache'
          /\ (th[t].pc = "lookup" /\ Steps(t) /\ th[t].key \notin CacheKeys(tile_cache))
               => /\ th'[t].pc = "ds_check"
                  /\ misses' = misses + 1 ]_vars

\* the second request of a run computes and stores a tile after the first one
\* missed once and stored nothing
C11_Witness ==
  \E t \in Threads :
    /\ th[t].op = "tile" /\ th[t].pc = "ret" /\ ~th[t].failed /\ ~th[t].hit
    /\ started = 2 /\ misses = 2 /\ hits = 0
    /\ CacheKeys(tile_cache) = {th[t].key}

\* day_index is outside 0 .. total_days - 1 of the period of key k
OutOfRange(k) ==
  k[1] \in DOMAIN src /\ (k[2] < 0 \/ k[2] >= TotalDays(src[k[1]]))

\* C12: a call of get_cached_precip_data with a day_index that is negative or
\* not below total_days fails: it returns no tile and the tile cache never
\* holds an entry for such a key.
C12_OutOfRangeFails ==
  /\ \A t \in Threads :
       (th[t].ctx = "tile" /\ th[t].pc = "ret" /\ OutOfRange(th[t].key))
         => th[t].failed /\ th[t].result = None
  /\ \A k \in CacheKeys(tile_cache) : ~OutOfRange(k)

\* the period of thread t is a known one whose source has no 'pr' variable
NoPr(t) == th[t].key[1] \in Periods /\ ~src[th[t].key[1]].hasPr

\* an error response: the 500 of an exception or the 400 of a refused request
IsError(r) == r.pc = "done" /\ r.status \in {"error", "invalid"} /\ r.out = None

\* for a period without 'pr', get_cached_precip_data never gets to the slice
\* reads and the tile cache holds no tile of the period
NoTileWithoutPr ==
  /\ \A t \in Threads : (NoPr(t) /\ th[t].ctx = "tile") =>
        /\ th[t].pc \notin {"lm_check", "lm_load", "insert"}
        /\ th[t].pc = "ret" => th[t].failed /\ th[t].result = None
  /\ \A k \in CacheKeys(tile_cache) : src[k[1]].hasPr

\* C13 as stated: without 'pr' get_cached_precip_data fails before any slice
\* read and stores nothing, and every endpoint serving the period answers with
\* an error.
C13_EveryEndpointFails ==
  /\ NoTileWithoutPr
  /\ \A t \in Threads :
       (NoPr(t) /\ th[t].pc = "done" /\ th[t].op # "clear") => IsError(th[t])

\* C13 amended: without 'pr' get_cached_precip_data fails before any slice read
\* and stores nothing, and every endpoint that reads precipitation answers with
\* an error; /api/times, which reads the time axis only, is the exception.
C13_PrecipitationEndpointsFail ==
  /\ NoTileWithoutPr
  /\ \A t \in Threads :
       (NoPr(t) /\ th[t].pc = "done" /\ th[t].op \notin {"clear", "times"})
         => IsError(th[t])

\* the binary tile endpoint has answered with an error for a period whose file
\* opened (it is in the connection map) and has no 'pr'
C13_Witness ==
  \E t \in Threads :
    /\ NoPr(t) /\ th[t].op = "tile" /\ IsError(th[t])
    /\ th[t].key[1] \in DOMAIN dataset_cache
    /\ ~handles[dataset_cache[th[t].key[1]]].closed

\* thread t serves a data endpoint for a period that is not available
InvalidPeriod(r) ==
  r.op \notin {"idle", "clear"} /\ r.key[1] \notin get_available_periods

\* C14: a data endpoint called with a period that is not available answers
\* with an error and nothing else: the thread is at its error response as soon
\* as the handler has started, and no step of such a request changes the
\* connection map, the tile cache, the land-mask map or the region-mask map.
C14_InvalidPeriodRefused ==
  /\ [](\A t \in Threads :
          InvalidPeriod(th[t]) => IsError(th[t]) /\ th[t].status = "invalid")
  /\ [][\A t \in Threads :
          (Steps(t) /\ (InvalidPeriod(th[t]) \/ InvalidPeriod(th'[t])))
            => UNCHANGED <<dataset_cache, tile_cache, land_mask_cache, zom_mask_cache,
                           hits, misses>> ]_vars

\* a region-average request for the unknown period has been refused while the
\* tile cache and the connection map hold entries
C14_Witness ==
  \E t \in Threads :
    /\ th[t].op = "ravg" /\ th[t].key[1] = UnknownPeriod /\ IsError(th[t])
    /\ tile_cache # << >> /\ dataset_cache # << >>

\* C15: the aggregated endpoint aborts when the tile of a day of its range
\* fails. The step that sees the failed call ends the request with an error and
\* no grid, and a request that answers with a grid has used the tile of every
\* day of the range start_day .. end_day.
C15_AggregationAborts ==
  /\ [](\A t \in Threads :
          (th[t].op = "agg" /\ th[t].pc = "done" /\ th[t].status = "ok")
            => /\ th[t].out # None
               /\ Len(th[t].used) = th[t].hi - th[t].lo + 1)
  /\ [][\A t \in Threads :
          (th[t].op = "agg" /\ th[t].pc = "ret" /\ th[t].failed /\ Steps(t))
            => IsError(th'[t]) /\ th'[t].status = "error" ]_vars

\* an aggregation has ended with an error after the tile of an earlier day of
\* its range had been added
C15_Witness ==
  \E t \in Threads :
    /\ th[t].op = "agg" /\ IsError(th[t]) /\ th[t].status = "error"
    /\ Len(th[t].used) >= 1 /\ th[t].lo < th[t].hi

\* the output of the dekadal mode
DekadOutput == time_series # None /\ time_series[1].mode = "10day"

\* the days (1-based) of dekad k of a series of n days: days 10k .. min(10k+9, n-1)
\* counted from 0
DekadDays(k, n) == {i \in 1 .. n : 10 * (k - 1) < i /\ i <= 10 * k}

\* the sum of the daily values of a set of days
SumOfDays(D) == SumSet([i \in D |-> daily_series[i].precipitation], D)

\* dekadal mode outputs ceil(n/10) points, point k with the number of days of
\* its window, the sum of their values, and 'average' as given
DekadsAre(IsAverage(_, _, _)) ==
  DekadOutput =>
    LET n   == Len(daily_series)
        out == time_series[1].points
    IN  /\ Len(out) * 10 >= n
        /\ (Len(out) - 1) * 10 < n
        /\ \A k \in 1 .. Len(out) :
             /\ out[k].days = Cardinality(DekadDays(k, n))
             /\ out[k].date = daily_series[10 * (k - 1) + 1].date
             /\ out[k].end_date = daily_series[Min(10 * k, n)].date
             /\ out[k].precipitation = SumOfDays(DekadDays(k, n))
             /\ IsAverage(out[k].average, out[k].precipitation, out[k].days)
        /\ \A i \in 1 .. n : Cardinality({k \in 1 .. Len(out) : i \in DekadDays(k, n)}) = 1

\* the mean itself
ExactMean(avg, sum, n) == avg * n = sum

\* the mean rounded to the nearest hundredth
MeanToTwoDecimals(avg, sum, n) == 2 * avg * n - 2 * sum <= n /\ 2 * sum - 2 * avg * n <= n

\* C16 as stated: ceil(n/10) dekads in order, dekad k made of days
\* 10k .. min(10k+9, n-1), with their number, their sum and their mean; every
\* day in exactly one dekad.
C16_DekadsExactMean == DekadsAre(ExactMean)

\* C16 amended: the same, the average field being the mean rounded to two
\* decimals.
C16_Dekads == DekadsAre(MeanToTwoDecimals)

\* the daily values 1 .. 10 have given one dekad of sum 55 and average 5.5
C16_Witness ==
  /\ DekadOutput
  /\ daily_series = DailySeries(10, 100, 100)
  /\ Len(time_series[1].points) = 1
  /\ time_series[1].points[1].precipitation = 5500
  /\ time_series[1].points[1].average = 550

\* the output of the monthly mode
MonthOutput == time_series # None /\ time_series[1].mode = "monthly"

\* the days (1-based) of the daily series in the calendar month of date
DaysOfMonth(date) ==
  {i \in 1 .. Len(daily_series) :
     daily_series[i].date[1] = date[1] /\ daily_series[i].date[2] = date[2]}

\* month a is before month b
MonthBefore(a, b) == a[1] < b[1] \/ (a[1] = b[1] /\ a[2] < b[2])

\* monthly mode: the outputs are in increasing month order, every day is in the
\* output of its calendar month and in no other, every output carries the
\* number of its days, their sum and 'average' as given, and the numbers of
\* days add up to the length of the daily series
MonthsAre(IsAverage(_, _, _)) ==
  MonthOutput =>
    LET n   == Len(daily_series)
        out == time_series[1].points
    IN  /\ \A k \in 1 .. Len(out) - 1 : MonthBefore(out[k].date, out[k + 1].date)
        /\ \A i \in 1 .. n :
             Cardinality({k \in 1 .. Len(out) : i \in DaysOfMonth(out[k].date)}) = 1
        /\ \A k \in 1 .. Len(out) :
             /\ out[k].days = Cardinality(DaysOfMonth(out[k].date))
             /\ out[k].precipitation = SumOfDays(DaysOfMonth(out[k].date))
             /\ IsAverage(out[k].average, out[k].precipitation, out[k].days)
        /\ SumSet([k \in 1 .. Len(out) |-> out[k].days], 1 .. Len(out)) = n

\* C17 as stated: every day in the output of its calendar month, outputs in
\* month order with the sum, the mean and the number of their days, the numbers
\* of days adding up to the length of the daily series.
C17_MonthsExactMean == MonthsAre(ExactMean)

\* C17 amended: the same, the average field being the mean rounded to two
\* decimals.
C17_Months == MonthsAre(MeanToTwoDecimals)

\* a series that runs from January into February has given two outputs
C17_Witness ==
  /\ MonthOutput
  /\ Len(daily_series) = 10
  /\ Len(time_series[1].points) = 2
  /\ time_series[1].points[1].days = 7
  /\ time_series[1].points[2].days = 3

\* the signed 32-bit integer of 4 little-endian bytes
Int32Of(b) ==
  LET u == b[1] + 256 * b[2] + 65536 * b[3] + 16777216 * (b[4] % 128)
  IN  IF b[4] >= 128 THEN u - 2147483647 - 1 ELSE u

\* item i (from 0) of the 4-byte items of the response
Item(i) == Int32Of(SubSeq(binary_data, 4 * i + 1, 4 * i + 4))

\* a response has been packed
IsPacked == binary_data # << >>

\* C18: the length of a binary response is 52 + 4 * (latCount + lonCount +
\* latCount * lonCount) bytes, latCount and lonCount being its first two header
\* integers, for every grid, a grid of one row or one column included.
C18_ResponseLength ==
  IsPacked =>
    Len(binary_data) = 52 + 4 * (Item(0) + Item(1) + Item(0) * Item(1))

\* the decoding of the response by the documented layout: 4 int32, 9 float32,
\* the latitudes, the longitudes, the value grid in row-major order
Decoded ==
  LET nlat == Item(0)
      nlon == Item(1)
  IN  [lat_count   |-> nlat,
       lon_count   |-> nlon,
       time_index  |-> Item(2),
       total_days  |-> Item(3),
       bounds      |-> [i \in 1 .. 4 |-> Item(3 + i)],
       stats       |-> [i \in 1 .. 5 |-> Item(7 + i)],
       lats        |-> [i \in 1 .. nlat |-> Item(12 + i)],
       lons        |-> [i \in 1 .. nlon |-> Item(12 + nlat + i)],
       values      |-> [p \in (1 .. nlat) \X (1 .. nlon) |->
                          Item(12 + nlat + nlon + (p[1] - 1) * nlon + p[2])]]

\* what was encoded: the tile of the handler and the index of the request
Encoded ==
  LET tile == cached[1].tile
  IN  [lat_count   |-> Len(tile.lats.data),
       lon_count   |-> Len(tile.lons.data),
       time_index  |-> cached[1].time_index,
       total_days  |-> tile.total_days,
       bounds      |-> tile.bounds,
       stats       |-> tile.stats,
       lats        |-> tile.lats.data,
       lons        |-> tile.lons.data,
       values      |-> tile.values]

\* C19: decoding a binary response by the documented layout recovers exactly
\* the header fields, the coordinate arrays and the value grid of the tile that
\* was encoded.
C19_RoundTrip == IsPacked => Decoded = Encoded

\* C20: every land mask stored in the land-mask map is the validity pattern of
\* time slice 0 of period 202508, subsampled by the key it is stored under,
\* whatever period is served and whatever requests came before.
C20_MaskFromReferenceSlice ==
  \A s \in DOMAIN land_mask_cache :
    LET ref  == src["202508"]
        mask == land_mask_cache[s]
    IN  /\ DOMAIN mask = (1 .. SubCount(ref.nlat, s)) \X (1 .. SubCount(ref.nlon, s))
        /\ \A p \in DOMAIN mask :
             LET v == ref.pr[1][<<(p[1] - 1) * s + 1, (p[2] - 1) * s + 1>>]
             IN  mask[p] <=> (v > -FillBound /\ v < FillBound /\ v >= 0)

\* a mask was just loaded and stored by a request that serves another period,
\* whose own first time slice has another validity pattern
C20_Witness ==
  \E t \in Threads :
    /\ th[t].key[1] = "202601"
    /\ th[t].lm # None
    /\ th[t].key[3] \in DOMAIN land_mask_cache
    /\ land_mask_cache[th[t].key[3]] = th[t].lm[1]
    /\ th[t].lm[1] # [p \in DOMAIN th[t].lm[1] |->
                        IsValid(src["202601"].pr[1][<<(p[1] - 1) * th[t].key[3] + 1,
                                                      (p[2] - 1) * th[t].key[3] + 1>>])]

\* the raw reading of the reference slice under pixel p of the slice
\* subsampled by s
ReferenceReading(p, s) ==
  src[REFERENCE_PERIOD].pr[1][<<(p[1] - 1) * s + 1, (p[2] - 1) * s + 1>>]

\* the readings that are numbers, not negative and below the fill bound
LandReadings == (0 .. (FillBound - 1)) \ {NaN}

\* mask is the land mask of factor s of the reference slice
IsLandMask(mask, s) ==
  /\ DOMAIN mask = (1 .. SubCount(src[REFERENCE_PERIOD].nlat, s))
                     \X (1 .. SubCount(src[REFERENCE_PERIOD].nlon, s))
  /\ \A p \in DOMAIN mask : mask[p] <=> ReferenceReading(p, s) \in LandReadings

\* C21: for every pixel of the subsampled reference slice the land mask,
\* stored or returned, is true exactly when the raw reading v is a number with
\* -1e30 < v < 1e30 and v >= 0; both fill values, every negative reading and a
\* non-number give false.
C21_LandIffValidReading ==
  /\ \A s \in DOMAIN land_mask_cache : IsLandMask(land_mask_cache[s], s)
  /\ \A t \in Threads :
       (th[t].op = "mask" /\ th[t].pc = "done" /\ th[t].status = "ok")
         => IsLandMask(th[t].out[1], th[t].key[3])

\* get_land_mask(1) has returned a mask of a slice with a non-number under the
\* first pixel and a negative reading under the second: neither is land
C21_Witness ==
  \E t \in Threads :
    /\ th[t].op = "mask" /\ th[t].pc = "done" /\ th[t].status = "ok"
    /\ th[t].key[3] = 1
    /\ ReferenceReading(<<1, 1>>, 1) = NaN
    /\ ReferenceReading(<<1, 2>>, 1) = -1
    /\ th[t].out[1] = (<<1, 1>> :> FALSE) @@ (<<1, 2>> :> FALSE)

\* thread t computes a land mask in this step: get_land_mask opens the
\* reference source and reads the slice
ComputesMask(t) ==
  /\ th[t].pc = "lm_load"
  /\ th'[t].pc # "lm_load"
  /\ Len(handles') = Len(handles) + 1

\* C22: between two clears the land mask of a subsampling factor is computed
\* at most once: no call computes the mask of a factor whose mask, computed
\* since the last clear, is in the map.
C22_ComputedOnce ==
  [][\A t \in Threads :
       ComputesMask(t) => th[t].key[3] \notin DOMAIN land_mask_cache]_vars

\* the entry of factor s is the same before and after the step
SameEntry(s) ==
  /\ (s \in DOMAIN land_mask_cache) <=> (s \in DOMAIN land_mask_cache')
  /\ s \in DOMAIN land_mask_cache => land_mask_cache'[s] = land_mask_cache[s]

\* thread t is inside get_land_mask
InLandMask(t) == th[t].pc \in {"lm_check", "lm_load"}

\* C23: the masks of different subsampling factors are stored under different
\* keys. A step of get_land_mask(s1) leaves the entry of every other factor as
\* it was, an entry is created only by the computation of its own factor, and
\* the mask a call gets is the mask of its own factor, with that factor's shape.
C23_FactorsIndependent ==
  /\ [][\A t \in Threads, s \in LandMaskFactors :
          (InLandMask(t) /\ th'[t] # th[t] /\ s # th[t].key[3]) => SameEntry(s)]_vars
  /\ [][\A s \in LandMaskFactors :
          (s \in DOMAIN land_mask_cache' /\ ~SameEntry(s))
            => \E t \in Threads : ComputesMask(t) /\ th[t].key[3] = s]_vars
  /\ [](\A t \in Threads :
          (th[t].op = "mask" /\ th[t].pc = "ret_lm" /\ th[t].lm # None)
            => /\ DOMAIN th[t].lm[1] = SubPixels(src[REFERENCE_PERIOD], th[t].key[3])
               /\ th[t].lm[1] = LandMaskOf(src[REFERENCE_PERIOD], th[t].key[3]))

\* get_land_mask(2) returns its own entry while the map holds the entries of
\* both factors, which differ
C23_Witness ==
  \E t \in Threads :
    /\ th[t].op = "mask" /\ th[t].pc = "ret_lm" /\ th[t].key[3] = 2
    /\ DOMAIN land_mask_cache = {1, 2}
    /\ land_mask_cache[1] # land_mask_cache[2]
    /\ th[t].lm = Some(land_mask_cache[2])

\* values is the grid of key k with the ocean pixels of the reference mask at
\* the sentinel and the land pixels as in the unmasked tile
IsMasked(values, k) ==
  \A p \in DOMAIN values :
    values[p] = IF ReferenceReading(p, k[3]) \in LandReadings
                THEN DailyValues(src[k[1]], k[2], k[3])[p]
                ELSE SENTINEL

\* C24: every tile cached or returned for a key with apply_mask = true has the
\* sentinel -999 at every pixel that is not land in the reference land mask of
\* the same subsampling factor, and at the land pixels the value of the tile of
\* the same key with apply_mask = false.
C24_MaskedTiles ==
  /\ \A i \in 1 .. Len(tile_cache) :
       tile_cache[i].key[4] => IsMasked(tile_cache[i].tile.values, tile_cache[i].key)
  /\ \A t \in Threads :
       (th[t].op = "tile" /\ th[t].pc = "done" /\ th[t].status = "ok" /\ th[t].key[4])
         => IsMasked(th[t].out[1].values, th[t].key)

\* the pixels of the packed grid whose value is not the sentinel
ValidPixels ==
  {p \in DOMAIN cached[1].tile.values : cached[1].tile.values[p] # SENTINEL}

\* C25: the statistics of a tile or an aggregated grid, as held and as packed in
\* the header, are: display min 0 and display max 100 whatever the data; mean,
\* actual min and actual max over exactly the pixels that are not the sentinel;
\* and 0 for all three when every pixel is the sentinel.
C25_Statistics ==
  IsPacked =>
    LET values == cached[1].tile.values
        stats  == cached[1].tile.stats
    IN  /\ stats = [i \in 1 .. 5 |-> Item(7 + i)]
        /\ stats[1] = 0
        /\ stats[2] = 100
        /\ IF ValidPixels = {}
           THEN stats[3] = 0 /\ stats[4] = 0 /\ stats[5] = 0
           ELSE /\ stats[3] * Cardinality(ValidPixels) = SumSet(values, ValidPixels)
                /\ \E p \in ValidPixels : values[p] = stats[4]
                /\ \E p \in ValidPixels : values[p] = stats[5]
                /\ \A p \in ValidPixels : stats[4] <= values[p] /\ values[p] <= stats[5]

\* a packed grid with a sentinel pixel and pixels of data: the statistics are
\* those of the data pixels alone
C25_Witness ==
  /\ IsPacked
  /\ ValidPixels # {}
  /\ ValidPixels # DOMAIN cached[1].tile.values
  /\ Item(10) = 6 /\ Item(11) = 6 /\ Item(12) = 6

\* the grids the region endpoints build masks on: the full grid of a period,
\* and the grid of its tile of subsample 2 with the suffix of that endpoint
RegionGrids ==
  {[nlat |-> src[p].nlat, nlon |-> src[p].nlon, suffix |-> ""] : p \in Periods}
  \cup {[nlat |-> SubCount(src[p].nlat, 2), nlon |-> SubCount(src[p].nlon, 2),
         suffix |-> "_subsample"] : p \in Periods}

RegionNames == {zom.name : zom \in DrawnRegions}

KeyOf(name, g) == ZomKey(name, g.nlat, g.nlon, g.suffix)

\* C26: the region masks are stored under a key made of the region name and
\* the latitude and longitude counts of the grid. The same name on grids of
\* different dimensions has different keys, and the entry a request finds or
\* stores under the key of its grid has the shape of that grid.
C26_KeyedByNameAndShape ==
  /\ \A n1 \in RegionNames, n2 \in RegionNames, g1 \in RegionGrids, g2 \in RegionGrids :
       KeyOf(n1, g1) = KeyOf(n2, g2)
         => n1 = n2 /\ g1.nlat = g2.nlat /\ g1.nlon = g2.nlon
  /\ \A n \in RegionNames, g \in RegionGrids :
       KeyOf(n, g) \in DOMAIN zom_mask_cache
         => DOMAIN zom_mask_cache[KeyOf(n, g)] = (1 .. g.nlat) \X (1 .. g.nlon)

\* region Z has been asked for on the 1 x 2 grid and on the 3 x 3 grid: two
\* entries, each of the shape of its grid
C26_Witness ==
  /\ {ZomKey("Z", 1, 2, ""), ZomKey("Z", 3, 3, "")} \subseteq DOMAIN zom_mask_cache
  /\ DOMAIN zom_mask_cache[ZomKey("Z", 1, 2, "")] = (1 .. 1) \X (1 .. 2)
  /\ DOMAIN zom_mask_cache[ZomKey("Z", 3, 3, "")] = (1 .. 3) \X (1 .. 3)

\* the mask that the step stores under a new key, for the polygon and the grid
\* of the request that takes the step: the full grid of its period, or the grid
\* of subsample 2 in get_region_precipitation
BuiltMask(t) == zom_mask_cache'[CHOOSE k \in DOMAIN zom_mask_cache' \ DOMAIN zom_mask_cache : TRUE]

Builds(t) ==
  /\ th'[t] # th[t]
  /\ DOMAIN zom_mask_cache' # DOMAIN zom_mask_cache

GridOf(t) ==
  LET ds == src[th[t].key[1]]
      s  == IF th[t].op = "ravg" THEN 2 ELSE 1
  IN  [s |-> s, nlat |-> SubCount(ds.nlat, s), nlon |-> SubCount(ds.nlon, s)]

\* the polygon reaches from the first to the last latitude and longitude of the grid
CoversGrid(polygon, g) ==
  /\ ~polygon.empty
  /\ polygon.minx <= 1 /\ polygon.maxx >= SubIndex(g.nlon, g.s)
  /\ polygon.miny <= 1 /\ polygon.maxy >= SubIndex(g.nlat, g.s)

\* the polygon has no point, or no width or no height
Degenerate(polygon) ==
  polygon.empty \/ polygon.minx = polygon.maxx \/ polygon.miny = polygon.maxy

\* C27: the region mask built for a polygon that covers the entire bounding box
\* of the grid is true at every mesh point, the outer rows and columns
\* included, and has the grid's shape; the mask built for an empty or
\* degenerate polygon is false at every mesh point.
C27_CoveringAndEmptyPolygons ==
  [][\A t \in Threads :
       Builds(t) =>
         LET polygon == th[t].zom[1].poly
             g       == GridOf(t)
             mask    == BuiltMask(t)
         IN  /\ DOMAIN mask = (1 .. g.nlat) \X (1 .. g.nlon)
             /\ (CoversGrid(polygon, g) /\ ~Degenerate(polygon))
                  => \A px \in DOMAIN mask : mask[px]
             /\ Degenerate(polygon) => \A px \in DOMAIN mask : ~mask[px]]_vars

\* C28: a stored tile is never changed. Whatever request takes a step, every
\* key that is in the tile cache before and after the step holds the same tile
\* (value grid, shape and day count), and a hit returns the tile as it is
\* stored.
C28_TilesNeverMutated ==
  /\ [][\A k \in CacheKeys(tile_cache) \cap CacheKeys(tile_cache') :
          CacheTile(tile_cache', k) = CacheTile(tile_cache, k)]_vars
  /\ [][\A t \in Threads :
          (th[t].pc = "lookup" /\ th'[t].hit)
            => th'[t].result = Some(CacheTile(tile_cache, th[t].key))]_vars

\* an aggregation has answered from a tile that was in the cache before (a
\* hit), the tile has a sentinel pixel, and the cache still holds it as the
\* aggregation read it
C28_Witness ==
  \E t \in Threads :
    /\ th[t].op = "agg" /\ th[t].pc = "done" /\ th[t].status = "ok"
    /\ hits >= 1
    /\ Len(th[t].used) >= 1
    /\ \E i \in 1 .. Len(tile_cache) :
         /\ tile_cache[i].key = <<th[t].key[1], th[t].lo, 1, th[t].mask>>
         /\ tile_cache[i].tile.values = th[t].used[1]
         /\ \E px \in DOMAIN th[t].used[1] : th[t].used[1][px] = SENTINEL

\* the periods of a returned list
PeriodsOf(list) == {list[1][i] : i \in 1 .. Len(list[1])}

\* C29: once get_available_periods has returned a list that contains a period,
\* every later call returns a list that still contains it: the list of a call
\* contains every period of the list of the call before.
C29_PeriodsStayAvailable ==
  [][(available # None /\ available' # None)
       => PeriodsOf(available) \subseteq PeriodsOf(available')]_vars

\* the name of month number n, counted from January of year 0
MonthName(n) ==
  ToString(n \div 12) \o (IF (n % 12) + 1 < 10 THEN "0" ELSE "") \o ToString((n % 12) + 1)

\* the step is a call of get_available_periods
IsCall == started' = started + 1

\* the stored list is fresh at the time of the call
IsFresh ==
  /\ available_periods_cache # None
  /\ current_time - available_periods_cache_time < PERIODS_CACHE_TTL

\* C30: a refresh probes the candidates in consecutive month order from 202603
\* on (202612 is followed by 202701), stops at the first candidate that does
\* not open, and returns the known periods followed by exactly the candidates
\* that opened before it; within the time-to-live and without force_refresh
\* the call returns the stored list and probes nothing.
C30_ProbeOrderAndTtl ==
  [][IsCall =>
       IF IsFresh /\ ~force_refresh'
       THEN /\ probed' = << >>
            /\ available' = available_periods_cache
            /\ available_periods_cache' = available_periods_cache
       ELSE /\ Len(probed') >= 1
            /\ \A i \in 1 .. Len(probed') : probed'[i] = MonthName(2026 * 12 + 2 + (i - 1))
            /\ \A i \in 1 .. Len(probed') - 1 : probed'[i] \in present
            /\ probed'[Len(probed')] \notin present
            /\ available' = Some(<<"202508", "202601">>
                                 \o [i \in 1 .. Len(probed') - 1 |-> probed'[i]])]_vars

\* a refresh has probed past the end of the year: 202612 opened, 202701 was
\* tried next and opened too, and both are in the list returned
C30_Witness ==
  /\ available # None
  /\ Len(probed) >= 12
  /\ probed[10] = "202612"
  /\ probed[11] = "202701"
  /\ {"202612", "202701"} \subseteq PeriodsOf(available)

\* ------------------------------------------------------------------ C31

\* the raw samples of the i-th day of a daily series
RawSamples(i) == ((i - 1) * TIME_STEPS_PER_DAY) .. (i * TIME_STEPS_PER_DAY - 1)

\* the days (positions in the daily series) that make up output point k
Constituents(k) ==
  IF time_series[1].mode = "10day"
  THEN (10 * (k - 1) + 1) .. Min(10 * k, Len(daily_series))
  ELSE LET keys == SortedSeq({MonthKey(daily_series[i].date) : i \in 1 .. Len(daily_series)})
       IN  {i \in 1 .. Len(daily_series) : MonthKey(daily_series[i].date) = keys[k]}

\* point k carries its day count and the index range of its raw samples, and
\* the range of the next point lies after it
Traceable(k) ==
  LET points  == time_series[1].points
      samples == UNION {RawSamples(i) : i \in Constituents(k)}
  IN  /\ points[k].days = Cardinality(Constituents(k))
      /\ {"start_index", "end_index"} \subseteq DOMAIN points[k]
      /\ points[k].start_index = MinIndex(samples)
      /\ points[k].end_index = MaxIndex(samples)
      /\ points[k].start_index <= points[k].end_index
      /\ k < Len(points) => points[k].end_index < points[k + 1].start_index

\* C31: every dekadal and monthly output point of the point and of the region
\* time series carries the number of its days and the index range (start_index
\* the smallest, end_index the largest) of the raw samples that contributed to
\* it, and the ranges of consecutive points are disjoint and increasing
C31_DaysAndIndexRange ==
  time_series # None => \A k \in 1 .. Len(time_series[1].points) : Traceable(k)

\* ------------------------------------------------------------------ C32

\* the dataset and the pixel of the request of thread t
DatasetOf(t) == src[th[t].key[1]]

PixelOf(t) == <<th[t].lat_idx, th[t].lon_idx>>

\* the same number of days, the same dates, the same precipitation per day
SameDaily(a, b) ==
  /\ Len(a) = Len(b)
  /\ \A i \in 1 .. Len(a) :
       a[i].date = b[i].date /\ a[i].precipitation = b[i].precipitation

\* C32: for the same period, pixel and source data the daily series of the
\* point time series is the same whether built from the tile cache or by the
\* direct query of every sample, also for a pixel with partly valid days and a
\* sample count that is not a multiple of 4; /api/timeseries and
\* /api/timeseries/csv report the same daily values
C32_PointPathsAgree ==
  \A t \in Threads :
    th[t].op \in {"ts", "csv"} /\ th[t].status = "ok" =>
      /\ SameDaily(daily_series, CachedPointSeries(DatasetOf(t), PixelOf(t)))
      /\ SameDaily(daily_series, DirectPointSeries(DatasetOf(t), PixelOf(t)))
      /\ SameDaily(daily_series, CsvPointSeries(DatasetOf(t), PixelOf(t)))

\* ------------------------------------------------------------------ C33

\* the region mask of the request of thread t
RegionMaskOf(t) == RegionMask(th[t].zom[1], DatasetOf(t), 1)

\* C33: for the same period, region mask and source data the regional daily
\* series is the same whether computed from the tile cache or by the direct
\* query, also when the valid pixels of the region differ between the samples
\* of a day
C33_RegionPathsAgree ==
  \A t \in Threads :
    th[t].op = "rts" /\ th[t].status = "ok" =>
      /\ SameDaily(daily_series, CachedRegionSeries(DatasetOf(t), RegionMaskOf(t)))
      /\ SameDaily(daily_series, DirectRegionSeries(DatasetOf(t), RegionMaskOf(t)))

\* ------------------------------------------------------------------ C34

\* thread t takes the step in which its handler finds or builds its region mask
TakesMask(t) ==
  /\ th'[t] # th[t]
  /\ ~th[t].failed
  /\ \/ th[t].op = "rts" /\ th[t].pc = "ret_ds" /\ src[th[t].key[1]].hasPr
     \/ th[t].op = "rcsv" /\ th[t].pc = "ret_ds"
     \/ th[t].op = "ravg" /\ th[t].pc = "ret"

\* the region mask the handler goes on with: the entry under its cache key
UsedMask(t) ==
  zom_mask_cache'[ZomKey(th[t].zom[1].name, GridOf(t).nlat, GridOf(t).nlon,
                         IF th[t].op = "ravg" THEN "_subsample" ELSE "")]

\* C34: the region mask a region request computes its answer with is the
\* point-in-polygon result of the polygon of that same request against the
\* grid, whatever requests came before, an earlier request with the same
\* region name and another polygon included
C34_MaskOfOwnPolygon ==
  [][\A t \in Threads :
       TakesMask(t) => UsedMask(t) = RegionMask(th[t].zom[1], src[th[t].key[1]], GridOf(t).s)]_vars

\* ------------------------------------------------------------------ C35

\* thread t is about to read time slices from the handle it got from get_dataset
ReadsSlices(t) == th[t].pc \in {"read", "direct"}

\* handle i is the entry of some period in the connection map
InConnectionMap(i) == \E p \in DOMAIN dataset_cache : dataset_cache[p] = i

\* C35: under any interleaving of clear_cache with tile, prefetch and
\* time-series requests no request reads a time slice from a handle that
\* clear_cache has closed, and every handle get_dataset opened is in the
\* connection map or closed
C35_HandlesUnderClear ==
  /\ \A t \in Threads : ReadsSlices(t) => ~handles[th[t].ds].closed
  /\ \A i \in 1 .. Len(handles) :
       handles[i].by = "get_dataset" => InConnectionMap(i) \/ handles[i].closed

\* ------------------------------------------------------------------ C36

\* thread t, in prefetch_period, takes the step after a tile call that returned
CountsDay(t) ==
  /\ th[t].op = "prefetch"
  /\ th[t].pc = "ret"
  /\ ~th[t].failed
  /\ th'[t] # th[t]

\* C36: every prefetch response has newlyCached + alreadyCached = totalDays;
\* newlyCached counts the days whose tile was absent from the cache when this
\* prefetch asked for it and alreadyCached those whose tile was present, also
\* when other requests hit the tile cache concurrently
C36_PrefetchCounts ==
  [][\A t \in Threads :
       CountsDay(t) =>
         /\ th'[t].already_cached = th[t].already_cached + (IF th[t].hit THEN 1 ELSE 0)
         /\ th'[t].cached_count = th[t].cached_count + (IF th[t].hit THEN 0 ELSE 1)
         /\ th'[t].pc = "done"
              => th'[t].out = Some(<<th[t].hi, th'[t].cached_count, th'[t].already_cached>>)
                 /\ th'[t].cached_count + th'[t].already_cached = th[t].hi]_vars

\* ------------------------------------------------------------------ C37

\* the days whose tile the prefetch of thread t has got so far: all of them
\* when it has completed, those before the day it is at while it runs
DaysDone(t) == IF th[t].pc = "done" THEN th[t].hi ELSE th[t].day

\* the tile key of day d of the prefetch of thread t
PrefetchKey(t, d) == <<th[t].key[1], d, 1, th[t].mask>>

\* C37: when prefetch_period completes successfully for a period of no more
\* days than the tile cache has room for, and no other request runs meanwhile,
\* the tile cache holds the tile of every day 0 .. total_days - 1 of the period
\* for subsample 1 and the mask flag asked for; the tiles are got in
\* increasing day order, so that while the loop is at day d the tiles of the
\* days before d are in the cache
C37_PrefetchWarmsPeriod ==
  \A t \in Threads :
    (th[t].op = "prefetch" /\ th[t].status \in {"", "ok"} /\ th[t].hi <= maxsize)
      => \A d \in 0 .. DaysDone(t) - 1 : PrefetchKey(t, d) \in CacheKeys(tile_cache)

\* a prefetch of a period of two days has completed: both days were computed
\* by it and both tiles are in the cache
C37_Witness ==
  \E t \in Threads :
    /\ th[t].op = "prefetch" /\ th[t].pc = "done" /\ th[t].status = "ok"
    /\ th[t].hi = 2 /\ th[t].cached_count = 2
    /\ \A d \in 0 .. 1 : PrefetchKey(t, d) \in CacheKeys(tile_cache)

\* ------------------------------------------------------------------ C38

\* C38: after clear_cache has returned all caches are empty: the tile cache,
\* the connection map, the land-mask map and the region-mask map hold no
\* entry, so that the first region request after a clear computes its mask
C38_ClearEmptiesAllCaches ==
  \A t \in Threads :
    (th[t].op = "clear" /\ th[t].pc = "done")
      => /\ tile_cache = << >>
         /\ dataset_cache = << >>
         /\ land_mask_cache = << >>
         /\ zom_mask_cache = << >>

\* ------------------------------------------------------------------ C39

\* thread t has answered an aggregation of the single valid day lo: start_time
\* = end_time, or end_time < start_time, which is clamped to start_time
SingleDay(t) ==
  /\ th[t].op = "agg"
  /\ th[t].pc = "done"
  /\ th[t].status = "ok"
  /\ th[t].lo = th[t].hi
  /\ th[t].lo \in 0 .. TotalDays(src[th[t].key[1]]) - 1

\* the daily tile of that day and mask flag, as get_cached_precip_data
\* returned it to the handler
DailyTile(t) == th[t].result[1]

\* C39: for a valid day d and a mask flag, the aggregated endpoint called for
\* the single day d answers with the value grid, and hence the statistics, of
\* the daily tile of day d with the same flag; the coordinate arrays and the
\* bounds are those of the tile
C39_SingleDayIsDailyTile ==
  \A t \in Threads :
    SingleDay(t) =>
      /\ th[t].out[1] = DailyTile(t).values
      /\ Stats(th[t].out[1]) = Stats(DailyTile(t).values)

\* ------------------------------------------------------------------ C40

\* the pixels the series of thread t is about: its pixel, or those of its region
PixelsOf(t) ==
  IF th[t].op \in {"ts", "csv"} THEN {PixelOf(t)}
  ELSE {px \in DOMAIN RegionMaskOf(t) : RegionMaskOf(t)[px]}

\* none of those pixels has a valid reading in the raw samples of the i-th day
NoValidData(t, i) ==
  \A j \in DayIndices(DatasetOf(t), i - 1), px \in PixelsOf(t) :
    ~IsValid(ReadSlice(DatasetOf(t), j, 1)[px])

\* the dekadal and the monthly points of the daily series
AggregatedPoints ==
  LET half_up == [k \in 1 .. Len(daily_series) |-> TRUE]
      dekads  == Dekads(daily_series, half_up)
      months  == Months(daily_series, half_up)
  IN  {dekads[k] : k \in 1 .. Len(dekads)} \cup {months[k] : k \in 1 .. Len(months)}

\* C40: the sentinel never enters a time series: in every point, region and
\* CSV series a day whose pixel, or whose whole region, has no valid data is
\* reported with precipitation 0, and every daily, dekadal and monthly
\* precipitation, sum and average is a number >= 0
C40_NoSentinelInSeries ==
  \A t \in Threads :
    (th[t].op \in {"ts", "csv", "rts", "rcsv"} /\ th[t].status = "ok") =>
      /\ \A i \in 1 .. Len(daily_series) :
           /\ daily_series[i].precipitation # NaN
           /\ daily_series[i].precipitation >= 0
           /\ NoValidData(t, i) => daily_series[i].precipitation = 0
      /\ \A point \in AggregatedPoints : point.precipitation >= 0 /\ point.average >= 0

====
